---- MODULE Spec2Model ----
(***************************************************************************)
(* Model of the query router (agent_controller.py) and the conversation   *)
(* memory store (agent_memory.py).                                        *)
(*                                                                         *)
(* Texts are sequences of atoms.  Text that the program inspects (queries, *)
(* the model's answers) is spelled character by character, so that         *)
(* `in`, lower(), strip() and split() are computed on it as Python         *)
(* computes them.  Literal template chunks and message contents that the   *)
(* program only copies are single atoms.                                   *)
(***************************************************************************)
EXTENDS Integers, Sequences, FiniteSets, TLC

VARIABLES
    memories,   \* AgentMemoryManager.memories: agent_id -> list of messages
    disk,       \* persistence_dir: file name -> what the file holds
    ret,        \* outcome of the last add_*_message / clear_memory call
    got,        \* what the last read since that call returned
    save_failures, \* failed writes of _save_memory so far
    query,      \* the query text handed to the router
    react_real, \* ReactAgent.using_real_implementation
    real_impl,  \* using_real_implementation of each capability that has one
    out,        \* outcome of the last router operation
    boot,       \* outcome of the last AgentMemoryManager() construction
    ctor,       \* where CalendarAgent.__init__ of calendar_agent.py stands
    using_real_implementation, \* calendar_agent.using_real_implementation
    reqs,       \* the calendar requests in flight, one per server thread
    first,      \* an earlier run of the router on the same query
    http,       \* the POST request at the API and its answer
    call,       \* a call of a calendar operation in fallback mode and what it returned
    objects,    \* the Memory objects on the heap: object -> list of messages
    refs,       \* AgentMemoryManager.memories as references: agent_id -> object
    threads     \* the request threads that append to the store concurrently

vars == <<memories, disk, ret, got, save_failures, query, react_real, real_impl, out,
          boot, ctor, using_real_implementation, reqs, first, http,
          call, objects, refs, threads>>
storeVars == <<memories, disk, ret, got, save_failures>>
routerVars == <<query, react_real, real_impl, out>>
calendarVars == <<ctor, using_real_implementation, reqs>>
raceVars == <<objects, refs, threads>>
lateVars == <<call, raceVars>>
otherVars == <<boot, calendarVars, first, http, lateVars>>

----------------------------------------------------------------------------
(* Bounds *)

MaxStored == 2      \* messages held by the store at one time, over all logs
MaxSaveFailures == 1 \* writes of _save_memory that fail
MaxArg == 2         \* largest explicit max_messages argument
MaxWords == 2       \* words in a query

----------------------------------------------------------------------------
(* Python string operations on texts *)

Min(a, b) == IF a <= b THEN a ELSE b

\* str.lower() on one character
LowerChar(c) ==
    CASE c = "D" -> "d"
      [] c = "S" -> "s"
      [] c = "U" -> "u"
      [] c = "M" -> "m"
      [] c = "A" -> "a"
      [] c = "C" -> "c"
      [] c = "P" -> "p"
      [] c = "T" -> "t"
      [] OTHER -> c

\* str.lower()
Lower(s) == [i \in 1..Len(s) |-> LowerChar(s[i])]

\* t in s
Contains(s, t) ==
    \E i \in 1..(Len(s) - Len(t) + 1) : SubSeq(s, i, i + Len(t) - 1) = t

\* s.find(t) + 1, 0 when t does not occur
Find(s, t) ==
    IF Contains(s, t)
    THEN CHOOSE i \in 1..(Len(s) - Len(t) + 1) :
            /\ SubSeq(s, i, i + Len(t) - 1) = t
            /\ \A j \in 1..(i - 1) : SubSeq(s, j, j + Len(t) - 1) # t
    ELSE 0

\* s.split(t): the list of pieces
RECURSIVE Split(_, _)
Split(s, t) ==
    IF ~Contains(s, t)
    THEN <<s>>
    ELSE LET i == Find(s, t)
         IN  <<SubSeq(s, 1, i - 1)>> \o Split(SubSeq(s, i + Len(t), Len(s)), t)

IsSpace(c) == c \in {" ", "\n"}

\* s.strip()
RECURSIVE Strip(_)
Strip(s) ==
    IF s = <<>> THEN s
    ELSE IF IsSpace(s[1]) THEN Strip(Tail(s))
    ELSE IF IsSpace(s[Len(s)]) THEN Strip(SubSeq(s, 1, Len(s) - 1))
    ELSE s

\* sep.join(parts)
RECURSIVE Join(_, _)
Join(parts, sep) ==
    IF parts = <<>> THEN <<>>
    ELSE IF Len(parts) = 1 THEN parts[1]
    ELSE parts[1] \o sep \o Join(Tail(parts), sep)

----------------------------------------------------------------------------
(* Keywords and names the code looks for, spelled out *)

K_restaurant == <<"r", "e", "s", "t", "a", "u", "r", "a", "n", "t">>
K_food == <<"f", "o", "o", "d">>
K_eat == <<"e", "a", "t">>
K_location == <<"l", "o", "c", "a", "t", "i", "o", "n">>
K_calendar == <<"c", "a", "l", "e", "n", "d", "a", "r">>
K_schedule == <<"s", "c", "h", "e", "d", "u", "l", "e">>
K_meeting == <<"m", "e", "e", "t", "i", "n", "g">>
K_science == <<"s", "c", "i", "e", "n", "c", "e">>
K_physics == <<"p", "h", "y", "s", "i", "c", "s">>
K_entropy == <<"e", "n", "t", "r", "o", "p", "y">>
K_quantum == <<"q", "u", "a", "n", "t", "u", "m">>
K_study == <<"s", "t", "u", "d", "y">>
K_learn == <<"l", "e", "a", "r", "n">>
K_course == <<"c", "o", "u", "r", "s", "e">>
K_document == <<"d", "o", "c", "u", "m", "e", "n", "t">>
K_pdf == <<"p", "d", "f">>
K_file == <<"f", "i", "l", "e">>
K_add == <<"a", "d", "d">>
K_create == <<"c", "r", "e", "a", "t", "e">>
K_titled == <<"t", "i", "t", "l", "e", "d">>
K_sp_on_sp == <<" ", "o", "n", " ">>
K_on_sp == <<"o", "n", " ">>
K_sp_at_sp == <<" ", "a", "t", " ">>
K_at_sp == <<"a", "t", " ">>
K_edit == <<"e", "d", "i", "t">>
K_update == <<"u", "p", "d", "a", "t", "e">>
K_change == <<"c", "h", "a", "n", "g", "e">>
K_to == <<"t", "o">>
K_delete == <<"d", "e", "l", "e", "t", "e">>
K_remove == <<"r", "e", "m", "o", "v", "e">>
K_cancel == <<"c", "a", "n", "c", "e", "l">>
K_show == <<"s", "h", "o", "w">>
K_view == <<"v", "i", "e", "w">>
K_list == <<"l", "i", "s", "t">>
K_reverse == <<"r", "e", "v", "e", "r", "s", "e">>
K_reversed == <<"r", "e", "v", "e", "r", "s", "e", "d">>
K_yes_or_no == <<"y", "e", "s", " ", "o", "r", " ", "n", "o">>
K_immortal == <<"i", "m", "m", "o", "r", "t", "a", "l">>
K_live_forever == <<"l", "i", "v", "e", " ", "f", "o", "r", "e", "v", "e", "r">>
K_hello == <<"h", "e", "l", "l", "o">>
K_hi == <<"h", "i">>
K_hey == <<"h", "e", "y">>
K_greetings == <<"g", "r", "e", "e", "t", "i", "n", "g", "s">>
K_thanks == <<"t", "h", "a", "n", "k", "s">>
K_thank_you == <<"t", "h", "a", "n", "k", " ", "y", "o", "u">>
K_appreciate == <<"a", "p", "p", "r", "e", "c", "i", "a", "t", "e">>
K_who == <<"w", "h", "o">>
K_you == <<"y", "o", "u">>
K_what_can_you_do == <<"w", "h", "a", "t", " ", "c", "a", "n", " ", "y", "o", "u", " ", "d", "o">>
K_help == <<"h", "e", "l", "p">>
K_how_are_you == <<"h", "o", "w", " ", "a", "r", "e", " ", "y", "o", "u">>
K_your_name == <<"y", "o", "u", "r", " ", "n", "a", "m", "e">>
K_direct == <<"d", "i", "r", "e", "c", "t">>
K_search == <<"s", "e", "a", "r", "c", "h">>
K_research == <<"r", "e", "s", "e", "a", "r", "c", "h">>
K_study_plan == <<"s", "t", "u", "d", "y", "_", "p", "l", "a", "n">>
K_document_analysis == <<"d", "o", "c", "u", "m", "e", "n", "t", "_", "a", "n", "a", "l", "y", "s", "i", "s">>
K_general == <<"g", "e", "n", "e", "r", "a", "l">>
K_chat == <<"c", "h", "a", "t">>
K_react == <<"r", "e", "a", "c", "t">>
K_collaborative_learning == <<"c", "o", "l", "l", "a", "b", "o", "r", "a", "t", "i", "v", "e", "_", "l", "e", "a", "r", "n", "i", "n", "g">>
K_evaluation == <<"e", "v", "a", "l", "u", "a", "t", "i", "o", "n">>

(* Words that queries are made of *)
W_schedule == <<"s", "c", "h", "e", "d", "u", "l", "e">>
W_meeting == <<"m", "e", "e", "t", "i", "n", "g">>
W_entropy == <<"e", "n", "t", "r", "o", "p", "y">>
W_create == <<"c", "r", "e", "a", "t", "e">>
W_update == <<"u", "p", "d", "a", "t", "e">>
W_Delete == <<"D", "e", "l", "e", "t", "e">>

(* Answers of the completion service to the router's decision prompt *)
A_calendar == <<"c", "a", "l", "e", "n", "d", "a", "r">>
A_research == <<"r", "e", "s", "e", "a", "r", "c", "h">>
A_Search == <<" ", "S", "e", "a", "r", "c", "h", "\n">>
A_chat == <<"c", "h", "a", "t">>
A_react == <<"r", "e", "a", "c", "t">>
A_direct == <<"d", "i", "r", "e", "c", "t">>
A_general == <<"g", "e", "n", "e", "r", "a", "l">>
A_study_plan == <<"s", "t", "u", "d", "y", "_", "p", "l", "a", "n">>
A_document_analysis == <<"d", "o", "c", "u", "m", "e", "n", "t", "_", "a", "n", "a", "l", "y", "s", "i", "s">>
A_maybe == <<"m", "a", "y", "b", "e">>

----------------------------------------------------------------------------
(* agent_memory.py: AgentMemoryManager *)

\* agent ids and file names are texts; the ".../_memory.pkl" suffix is one atom
AgentIds == {<<"calendar_agent">>, <<"search_agent">>}
UserMessages == {"m1", "m2"}
AiMessages == {"r1"}

\* default of the max_messages parameter
DefaultMaxMessages == 10

MaxMessagesArgs == (0..MaxArg) \cup {DefaultMaxMessages}

\* outcomes of the write in _save_memory: written; open() raises IOError and
\* the file is left as it was; open() truncates the file and dump raises
SaveOutcomes == {"ok", "open_fails", "dump_fails"}

\* the exception the failing write raises
SaveException(outcome) ==
    CASE outcome = "ok" -> "none"
      [] outcome = "open_fails" -> "IOError"
      [] outcome = "dump_fails" -> "IOError"

\* except (pickle.PickleError, IOError) in _save_memory
CaughtOnSave_OnlyPickleError == {"PickleError"}

CaughtOnSave == {"PickleError", "IOError"}

\* what _save_memory lets through to its caller
SaveRaises(outcome) ==
    IF SaveException(outcome) \in CaughtOnSave THEN "none" ELSE SaveException(outcome)

\* agno Memory(): an empty message list
NewMemory == <<>>

Message(role, content) == [role |-> role, content |-> content]

EmptyMap == [a \in {} |-> NewMemory]

MemorySuffix == "_memory.pkl"

\* _get_memory_path: f"{agent_id}_memory.pkl" inside persistence_dir
MemoryPath(agent_id) == agent_id \o <<MemorySuffix>>

\* open(path, ...): the file the path names; "./" components name no other
\* directory, so paths that differ in them only are one file
FileNamed(path) == SelectSeq(path, LAMBDA x : x # "./")

\* filename.endswith("_memory.pkl")
EndsWithSuffix(filename) ==
    Len(filename) >= 1 /\ filename[Len(filename)] = MemorySuffix

\* filename.replace("_memory.pkl", ""): every occurrence is removed
AgentIdOfFile(filename) == SelectSeq(filename, LAMBDA x : x # MemorySuffix)

\* what open() / pickle.load can raise on a file that does not load:
\* UnpicklingError (a PickleError), EOFError, IOError, and AttributeError
\* when the pickled class is not found
LoadExceptions == {"PickleError", "EOFError", "IOError", "AttributeError"}

\* except (pickle.PickleError, EOFError, IOError) in _load_memories
CaughtOnLoad == {"PickleError", "EOFError", "IOError"}

\* a file that does not load, and the exception loading it raises
UnloadableFile(exc) == [valid |-> FALSE, log |-> <<>>, raises |-> exc]

\* the file a failed dump leaves: opened "wb" (truncated), nothing written
CorruptFile == UnloadableFile("EOFError")

PickledFile(log) == [valid |-> TRUE, log |-> log, raises |-> "none"]

\* the log of agent_id, empty when the store holds none
LogOf(mems, agent_id) ==
    IF agent_id \in DOMAIN mems THEN mems[agent_id] ELSE <<>>

StoredCount(mems) ==
    LET RECURSIVE Sum(_)
        Sum(S) == IF S = {} THEN 0
                  ELSE LET a == CHOOSE x \in S : TRUE
                       IN  Len(mems[a]) + Sum(S \ {a})
    IN  Sum(DOMAIN mems)

\* os.listdir(persistence_dir): the file names, in arbitrary order
Listings(dsk) ==
    { l \in [1..Cardinality(DOMAIN dsk) -> DOMAIN dsk] :
        \A i, j \in DOMAIN l : i # j => l[i] # l[j] }

\* the loop of _load_memories over the listing: every *_memory.pkl file
\* becomes the log of the agent_id its name gives; a file that fails with
\* PickleError, EOFError or IOError becomes an empty log; any other exception
\* leaves the loop and the constructor
RECURSIVE LoadFiles(_, _, _)
LoadFiles(dsk, listing, mems) ==
    IF listing = <<>> THEN [raised |-> "none", memories |-> mems]
    ELSE LET filename == Head(listing)
             file == dsk[filename]
             agent_id == AgentIdOfFile(filename)
         IN  IF ~EndsWithSuffix(filename)
             THEN LoadFiles(dsk, Tail(listing), mems)
             ELSE IF file.valid
             THEN LoadFiles(dsk, Tail(listing), (agent_id :> file.log) @@ mems)
             ELSE IF file.raises \in CaughtOnLoad
             THEN LoadFiles(dsk, Tail(listing), (agent_id :> NewMemory) @@ mems)
             ELSE [raised |-> file.raises, memories |-> mems]

\* _load_memories
LoadMemories(dsk, listing) == LoadFiles(dsk, listing, EmptyMap)

\* _save_memory: whole-file overwrite of the agent's log; PickleError and
\* IOError are printed and swallowed
SaveMemory(mems, dsk, agent_id, outcome) ==
    IF agent_id \notin DOMAIN mems THEN dsk
    ELSE CASE outcome = "ok" ->
                (FileNamed(MemoryPath(agent_id)) :> PickledFile(mems[agent_id])) @@ dsk
           [] outcome = "open_fails" -> dsk
           [] outcome = "dump_fails" ->
                (FileNamed(MemoryPath(agent_id)) :> CorruptFile) @@ dsk

\* get_memory: the map after the call (the log is created when missing)
GetMemoryMap(mems, agent_id) ==
    IF agent_id \notin DOMAIN mems
    THEN (agent_id :> NewMemory) @@ mems
    ELSE mems

AppendMessage_Prepend(log, msg) == <<msg>> \o log

\* Memory.add_user_message / add_ai_message: append to the message list
AppendMessage(log, msg) == Append(log, msg)

\* messages[-max_messages:] if len(messages) > max_messages else messages
RecentMessages(log, max_messages) ==
    IF Len(log) > max_messages
    THEN IF max_messages = 0
         THEN log   \* [-0:] is [0:], the whole list
         ELSE SubSeq(log, Len(log) - max_messages + 1, Len(log))
    ELSE log

RoleLabel(msg) == IF msg.role = "user" THEN "User" ELSE "Assistant"

\* f"{role}: {msg.content}"
HistoryBlock(msg) == <<RoleLabel(msg), ": ", msg.content>>

\* the text get_conversation_history builds from the selected messages
FormatHistory(messages) ==
    IF messages = <<>> THEN <<>>
    ELSE Join([i \in 1..Len(messages) |-> HistoryBlock(messages[i])], <<"\n\n">>)

NoResult ==
    [op |-> "none", agent |-> <<>>, msg |-> "", max |-> 0, saved |-> FALSE,
     exc |-> "none", text |-> <<>>, count |-> 0]

\* no router operation has run yet
NoOutcome ==
    [op |-> "none", cap |-> "", exc |-> "none", text |-> <<>>, choice |-> <<>>,
     invoked |-> <<>>, answer |-> <<>>, stage |-> "none", failed |-> FALSE,
     asked |-> <<>>, response |-> <<>>]

\* AgentMemoryManager() was constructed once, over an empty directory
Started == [status |-> "up", exc |-> "none", starts |-> 1, before |-> EmptyMap]

\* CalendarAgent() of calendar_agent.py is not part of the run
NoConstruction ==
    [module |-> "none", pc |-> "none", azure_key |-> FALSE, openai_key |-> FALSE,
     files |-> FALSE, attempt |-> 0, failed |-> 0, trials |-> 0, model |-> "none"]

\* no earlier run of the router
NoFirst == [out |-> NoOutcome, memories |-> EmptyMap]

\* no request at the API
NoHttp ==
    [endpoint |-> "none", json |-> "none", body |-> EmptyMap, status |-> 0,
     key |-> "none", invoked |-> <<>>]

CalendarUnused ==
    /\ ctor = NoConstruction
    /\ using_real_implementation = FALSE
    /\ reqs = <<>>

\* no calendar operation called yet
NoCall == [op |-> "none", args |-> <<>>, query |-> <<>>, response |-> <<>>, made |-> 0]

\* no threads at the store
RaceUnused ==
    /\ objects = <<>>
    /\ refs = <<>>
    /\ threads = <<>>

LateUnused ==
    /\ call = NoCall
    /\ RaceUnused

StoreInit ==
    /\ disk = EmptyMap
    /\ boot = Started
    /\ CalendarUnused
    /\ first = NoFirst
    /\ http = NoHttp
    /\ LateUnused
    /\ memories = LoadMemories(disk, <<>>).memories
    /\ ret = NoResult
    /\ got = NoResult
    /\ save_failures = 0
    /\ query = <<>>
    /\ react_real = FALSE
    /\ real_impl = EmptyMap
    /\ out = NoOutcome

\* the write of _save_memory is attempted and may fail
SaveAttempt(outcome) ==
    /\ outcome # "ok" => save_failures < MaxSaveFailures
    /\ save_failures' = IF outcome = "ok" THEN save_failures ELSE save_failures + 1

AddMessage_SaveBeforeAppend(op, role, agent_id, message, outcome) ==
    /\ boot.status = "up"
    /\ StoredCount(memories) < MaxStored
    /\ SaveAttempt(outcome)
    /\ LET created == GetMemoryMap(memories, agent_id)
           appended == [created EXCEPT ![agent_id] = AppendMessage(@, Message(role, message))]
       IN  /\ memories' = appended
           /\ disk' = SaveMemory(created, disk, agent_id, outcome)
    /\ ret' = [NoResult EXCEPT !.op = op, !.agent = agent_id, !.msg = message,
                               !.saved = (outcome = "ok"),
                               !.exc = SaveRaises(outcome)]
    /\ got' = NoResult
    /\ UNCHANGED <<routerVars, otherVars>>

\* add_user_message / add_ai_message: get_memory, append, _save_memory
AddMessage(op, role, agent_id, message, outcome) ==
    /\ boot.status = "up"
    /\ StoredCount(memories) < MaxStored
    /\ SaveAttempt(outcome)
    /\ LET created == GetMemoryMap(memories, agent_id)
           appended == [created EXCEPT ![agent_id] = AppendMessage(@, Message(role, message))]
       IN  /\ memories' = appended
           /\ disk' = SaveMemory(appended, disk, agent_id, outcome)
    /\ ret' = [NoResult EXCEPT !.op = op, !.agent = agent_id, !.msg = message,
                               !.saved = (outcome = "ok"),
                               !.exc = SaveRaises(outcome)]
    /\ got' = NoResult
    /\ UNCHANGED <<routerVars, otherVars>>

add_user_message(agent_id, message, outcome) ==
    AddMessage("add_user_message", "user", agent_id, message, outcome)

add_ai_message(agent_id, message, outcome) ==
    AddMessage("add_ai_message", "assistant", agent_id, message, outcome)

get_conversation_history_Saves(agent_id, max_messages) ==
    /\ boot.status = "up"
    /\ memories' = GetMemoryMap(memories, agent_id)
    /\ disk' = SaveMemory(memories', disk, agent_id, "ok")
    /\ got' = [NoResult EXCEPT !.op = "get_conversation_history", !.agent = agent_id,
                               !.max = max_messages,
                               !.text = FormatHistory(
                                   RecentMessages(memories'[agent_id], max_messages))]
    /\ UNCHANGED <<ret, save_failures, routerVars, otherVars>>

\* get_conversation_history: get_memory, then the text of the last messages
get_conversation_history(agent_id, max_messages) ==
    /\ boot.status = "up"
    /\ memories' = GetMemoryMap(memories, agent_id)
    /\ got' = [NoResult EXCEPT !.op = "get_conversation_history", !.agent = agent_id,
                               !.max = max_messages,
                               !.text = FormatHistory(
                                   RecentMessages(memories'[agent_id], max_messages))]
    /\ UNCHANGED <<disk, ret, save_failures, routerVars, otherVars>>

clear_memory_KeepsLog(agent_id, outcome) ==
    /\ boot.status = "up"
    /\ IF agent_id \in DOMAIN memories
       THEN /\ SaveAttempt(outcome)
            /\ UNCHANGED memories
            /\ disk' = SaveMemory(memories, disk, agent_id, outcome)
            /\ ret' = [NoResult EXCEPT !.op = "clear_memory", !.agent = agent_id,
                                       !.saved = (outcome = "ok"),
                                       !.exc = SaveRaises(outcome)]
       ELSE /\ outcome = "ok"
            /\ UNCHANGED <<memories, disk, save_failures>>
            /\ ret' = [NoResult EXCEPT !.op = "clear_memory", !.agent = agent_id]
    /\ got' = NoResult
    /\ UNCHANGED <<routerVars, otherVars>>

\* clear_memory: a log the store holds is replaced by a new Memory and saved
clear_memory(agent_id, outcome) ==
    /\ boot.status = "up"
    /\ IF agent_id \in DOMAIN memories
       THEN LET cleared == [memories EXCEPT ![agent_id] = NewMemory]
            IN  /\ SaveAttempt(outcome)
                /\ memories' = cleared
                /\ disk' = SaveMemory(cleared, disk, agent_id, outcome)
                /\ ret' = [NoResult EXCEPT !.op = "clear_memory", !.agent = agent_id,
                                           !.saved = (outcome = "ok"),
                                           !.exc = SaveRaises(outcome)]
       ELSE /\ outcome = "ok"
            /\ UNCHANGED <<memories, disk, save_failures>>
            /\ ret' = [NoResult EXCEPT !.op = "clear_memory", !.agent = agent_id]
    /\ got' = NoResult
    /\ UNCHANGED <<routerVars, otherVars>>

get_memory_stats(agent_id) ==
    /\ boot.status = "up"
    /\ memories' = GetMemoryMap(memories, agent_id)
    /\ got' = [NoResult EXCEPT !.op = "get_memory_stats", !.agent = agent_id,
                               !.count = Len(memories'[agent_id])]
    /\ UNCHANGED <<disk, ret, save_failures, routerVars, otherVars>>

get_memory(agent_id) ==
    /\ boot.status = "up"
    /\ memories' = GetMemoryMap(memories, agent_id)
    /\ got' = [NoResult EXCEPT !.op = "get_memory", !.agent = agent_id]
    /\ UNCHANGED <<disk, ret, save_failures, routerVars, otherVars>>

StoreNext ==
    \/ \E a \in AgentIds, m \in UserMessages, o \in SaveOutcomes : add_user_message(a, m, o)
    \/ \E a \in AgentIds, m \in AiMessages, o \in SaveOutcomes : add_ai_message(a, m, o)
    \/ \E a \in AgentIds, n \in MaxMessagesArgs : get_conversation_history(a, n)
    \/ \E a \in AgentIds, o \in SaveOutcomes : clear_memory(a, o)
    \/ \E a \in AgentIds : get_memory_stats(a)
    \/ \E a \in AgentIds : get_memory(a)

StoreSpec == StoreInit /\ [][StoreNext]_vars

\* agent ids as callers may spell them: agent_id is any str, also one that
\* spells the file of another agent_id
SpelledAgentIds == AgentIds \cup {<<"./", "calendar_agent">>}

\* the writing operations of the store, called with any of these agent ids
SharedFileNext ==
    \/ \E a \in SpelledAgentIds, o \in SaveOutcomes : add_user_message(a, "m1", o)
    \/ \E a \in SpelledAgentIds, o \in SaveOutcomes : add_ai_message(a, "r1", o)
    \/ \E a \in SpelledAgentIds, o \in SaveOutcomes : clear_memory(a, o)

SharedFileSpec == StoreInit /\ [][SharedFileNext]_vars

----------------------------------------------------------------------------
(* agent_memory.py: the store over a directory that outlives the process *)

\* agent ids of the restart runs: the second one contains the file suffix
RestartAgentIds == {<<"calendar_agent">>, <<"calendar_agent", MemorySuffix>>}

MaxStarts == 2      \* constructions of the store over the same directory

\* the process has not been started
NotStarted == [status |-> "down", exc |-> "none", starts |-> 0, before |-> EmptyMap]

\* what persistence_dir holds before the first start: nothing, or one file
\* left there that does not load
InitialDirectories ==
    {EmptyMap} \cup
    { MemoryPath(a) :> UnloadableFile(e) : a \in RestartAgentIds, e \in LoadExceptions }

RestartInit ==
    /\ disk \in InitialDirectories
    /\ memories = EmptyMap
    /\ boot = NotStarted
    /\ ret = NoResult
    /\ got = NoResult
    /\ save_failures = 0
    /\ CalendarUnused
    /\ query = <<>>
    /\ react_real = FALSE
    /\ real_impl = EmptyMap
    /\ out = NoOutcome
    /\ first = NoFirst
    /\ http = NoHttp
    /\ LateUnused

\* memory_manager = AgentMemoryManager(): __init__ runs _load_memories over
\* the directory; an exception it does not catch ends the start
AgentMemoryManager_init ==
    /\ boot.starts < MaxStarts
    /\ \E listing \in Listings(disk) :
         LET loaded == LoadMemories(disk, listing)
         IN  /\ boot' = [status |-> IF loaded.raised = "none" THEN "up" ELSE "failed",
                         exc |-> loaded.raised,
                         starts |-> boot.starts + 1,
                         before |-> memories]
             /\ memories' = IF loaded.raised = "none" THEN loaded.memories
                            ELSE EmptyMap
    /\ ret' = NoResult
    /\ got' = NoResult
    /\ UNCHANGED <<disk, save_failures, routerVars, calendarVars, first, http, lateVars>>

RestartNext ==
    \/ AgentMemoryManager_init
    \/ \E a \in RestartAgentIds, o \in SaveOutcomes : add_user_message(a, "m1", o)
    \/ \E a \in RestartAgentIds : get_conversation_history(a, DefaultMaxMessages)
    \/ \E a \in RestartAgentIds, o \in SaveOutcomes : clear_memory(a, o)

RestartSpec == RestartInit /\ [][RestartNext]_vars

----------------------------------------------------------------------------
(* agent_controller.py: the capabilities *)

\* keys of MultiAgentSystem.agents
Registry ==
    {"general", "search", "chat", "research", "study_plan", "document_analysis",
     "collaborative_learning", "evaluation", "calendar", "react"}

\* capabilities that carry a using_real_implementation flag
LiveCaps == {"general", "search", "chat", "research", "calendar"}

\* capabilities built from MockAgent
MockCaps == {"study_plan", "document_analysis", "collaborative_learning", "evaluation"}

\* the registry key as the text the router compares it with
KeyText(cap) ==
    CASE cap = "general" -> K_general
      [] cap = "search" -> K_search
      [] cap = "chat" -> K_chat
      [] cap = "research" -> K_research
      [] cap = "study_plan" -> K_study_plan
      [] cap = "document_analysis" -> K_document_analysis
      [] cap = "collaborative_learning" -> K_collaborative_learning
      [] cap = "evaluation" -> K_evaluation
      [] cap = "calendar" -> K_calendar
      [] cap = "react" -> K_react

\* a call returned text / raised
Returned(text) == [exc |-> "none", text |-> text]
Raised(exc) == [exc |-> exc, text |-> <<>>]

\* agent.print_response: what the completion service does on one call
BackendOutcomes ==
    { Raised("Exception"),
      Returned(<<>>),
      Returned(<<" ", "Answer from the completion service.", "\n">>) }

\* any(word in text for word in words)
AnyIn(words, text) == \E w \in words : Contains(text, w)

\* list[i] of Python (0-based) exists
HasIndex(list, i) == i + 1 <= Len(list)

\* SimpleSearchAgent._mock_response
SearchMockResponse(q) ==
    Returned(<<"Search Agent Response: Here's information about '">> \o q
             \o <<"'. This is a simulated response from the search agent.">>)

\* MockAgent.get_response
MockAgentResponse(name, q) ==
    CASE name = "search" -> SearchMockResponse(q)
      [] name = "study_plan" ->
            Returned(<<"# Study Plan for ">> \o q
                     \o <<"\n\n## Recommended Courses ... This is a simulated response from the study plan agent.">>)
      [] name = "document_analysis" ->
            Returned(<<"# Document Analysis\n\n## Key Findings\n- Main theme: ">> \o q
                     \o <<"\n- Important sections identified: 3 ... This is a simulated response from the document analysis agent.">>)
      [] OTHER ->
            Returned(<<"Response from ", name, " agent about '">> \o q
                     \o <<"'. This is a simulated agent response for testing purposes.">>)

\* the event-created template
EventCreated(title, date, time) ==
    <<"# Calendar Event Created\n\n## Event Details\n- Title: ">> \o title
    \o <<"\n- Date: ">> \o date \o <<"\n- Time: ">> \o time
    \o <<"\n\nThe event has been successfully added to your calendar.\n\nWould you like to set a reminder for this event?">>

\* the event-updated template
EventUpdated(original, details) ==
    <<"# Calendar Event Updated\n\n## Updated Event Details\n- Original Event: ">> \o original
    \o <<"\n- New Details: ">> \o details
    \o <<"\n\nYour calendar has been successfully updated.\n\nIs there anything else you'd like to modify about this event?">>

\* the event-deleted template
EventDeleted(event) ==
    <<"# Calendar Event Deleted\n\nThe event \"">> \o event
    \o <<"\" has been removed from your calendar.\n\nWould you like me to help you schedule a different event?">>

CalendarInformation ==
    <<"# Calendar Information\n\nI can help you manage your calendar. ... What would you like to do with your calendar?">>

\* CalendarAgent._mock_response of agent_controller.py
CalendarMockResponse(q) ==
    LET ql == Lower(q)
    IN  IF AnyIn({K_add, K_create, K_schedule}, ql)
        THEN Returned(EventCreated(
                IF Contains(q, K_titled)
                THEN Strip(Split(Split(q, K_titled)[2], K_sp_on_sp)[1])
                ELSE <<"New Event">>,
                IF Contains(q, K_on_sp)
                THEN Strip(Split(Split(q, K_on_sp)[2], K_sp_at_sp)[1])
                ELSE <<"Tomorrow">>,
                IF Contains(q, K_at_sp)
                THEN Strip(Split(q, K_at_sp)[2])
                ELSE <<"9:00 AM">>))
        ELSE IF AnyIn({K_edit, K_update, K_change}, ql)
        THEN \* query.split("edit")[1] and query.split("to")[1], unguarded
             IF ~HasIndex(Split(q, K_edit), 1) \/ ~HasIndex(Split(q, K_to), 1)
             THEN Raised("IndexError")
             ELSE Returned(EventUpdated(
                    Strip(Split(Split(q, K_edit)[2], K_to)[1]),
                    Strip(Split(q, K_to)[2])))
        ELSE IF AnyIn({K_delete, K_remove, K_cancel}, ql)
        THEN IF Contains(q, K_delete)
             THEN Returned(EventDeleted(Strip(Split(q, K_delete)[2])))
             ELSE IF Contains(q, K_remove)
             THEN Returned(EventDeleted(Strip(Split(q, K_remove)[2])))
             ELSE \* query.split("cancel")[1], unguarded
                  IF ~HasIndex(Split(q, K_cancel), 1)
                  THEN Raised("IndexError")
                  ELSE Returned(EventDeleted(Strip(Split(q, K_cancel)[2])))
        ELSE Returned(CalendarInformation)

\* ChatAgent._mock_response
ChatMockResponse(q) ==
    LET ql == Lower(q)
    IN  IF Contains(ql, K_how_are_you)
        THEN Returned(<<"I'm doing well, thank you for asking! How can I help you today?">>)
        ELSE IF Contains(ql, K_your_name)
        THEN Returned(<<"I'm an AI assistant here to help you with your questions.">>)
        ELSE IF Contains(ql, K_hello) \/ Contains(ql, K_hi)
        THEN Returned(<<"Hello! How can I assist you today?">>)
        ELSE Returned(<<"I'd be happy to help with '">> \o q \o <<"'. What would you like to know?">>)

\* ResearchAgent._mock_response
ResearchMockResponse(q) ==
    LET ql == Lower(q)
    IN  IF Contains(ql, K_entropy) /\ (Contains(ql, K_reverse) \/ Contains(ql, K_reversed))
        THEN Returned(<<"# Can Entropy Be Reversed? ... The Second Law of Thermodynamics ...">>)
        ELSE IF Contains(ql, K_yes_or_no)
        THEN Returned(<<"# Analyzing \"Yes or No\" Questions ...">>)
        ELSE Returned(<<"# Research Results: ">> \o q
                      \o <<"\n\nBased on available scientific and factual information, ...">>)

\* GeneralAgent._mock_response
GeneralMockResponse(q) ==
    LET ql == Lower(q)
    IN  IF Contains(ql, K_immortal) \/ Contains(ql, K_live_forever)
        THEN Returned(<<"# The Quest for Immortality ...">>)
        ELSE IF AnyIn({K_hello, K_hi, K_hey, K_greetings}, ql)
        THEN Returned(<<"Hello! I'm here to help with any questions or topics you'd like to discuss. What's on your mind today?">>)
        ELSE IF AnyIn({K_thanks, K_thank_you, K_appreciate}, ql)
        THEN Returned(<<"You're welcome! I'm glad I could be of assistance. ...">>)
        ELSE IF Contains(ql, K_who) /\ Contains(ql, K_you)
        THEN Returned(<<"# About Me ...">>)
        ELSE IF Contains(ql, K_what_can_you_do) \/ Contains(ql, K_help)
        THEN Returned(<<"# How I Can Help You ...">>)
        ELSE Returned(<<"# Thinking About: ">> \o q
                      \o <<"\n\nThank you for your thought-provoking question. ...">>)

\* the _mock_response of a capability that has one
MockResponse(cap, q) ==
    CASE cap = "search" -> SearchMockResponse(q)
      [] cap = "calendar" -> CalendarMockResponse(q)
      [] cap = "chat" -> ChatMockResponse(q)
      [] cap = "research" -> ResearchMockResponse(q)
      [] cap = "general" -> GeneralMockResponse(q)

\* the text CalendarAgent.get_response returns when the live call raises
CalendarErrorText(exc) ==
    <<"I encountered an error while trying to manage your calendar: ", exc,
      "\n\nPlease check your Google Calendar permissions and try again.">>

\* get_response of the capability registered under cap; real is its
\* using_real_implementation flag, backend what print_response does if called
GetResponse(cap, q, real, backend) ==
    IF cap = "react"
    THEN Raised("AttributeError")   \* ReactAgent defines no get_response
    ELSE IF cap \in MockCaps
    THEN MockAgentResponse(cap, q)
    ELSE IF ~real
    THEN MockResponse(cap, q)
    ELSE IF backend.exc # "none"
    THEN IF cap = "calendar"
         THEN Returned(CalendarErrorText(backend.exc))
         ELSE MockResponse(cap, q)
    ELSE Returned(Strip(backend.text))

\* whether get_response of cap calls the completion service
CallsBackend(cap, real) == cap \in LiveCaps /\ real

----------------------------------------------------------------------------
(* agent_controller.py: ReactAgent and MultiAgentSystem *)

Vocabulary == {W_schedule, W_meeting, W_entropy, W_create, W_update, W_Delete}

\* queries of one to MaxWords words
Queries ==
    { Join(ws, <<" ">>) : ws \in UNION { [1..n -> Vocabulary] : n \in 1..MaxWords } }

\* what the completion service prints for the decision prompt
Answers ==
    {A_calendar, A_research, A_Search, A_chat, A_react, A_direct, A_general,
     A_study_plan, A_document_analysis, A_maybe}

ReasoningOutcomes ==
    { Raised("Exception"), Returned(<<"Step-by-step analysis of the query.", "\n">>) }

DecisionOutcomes == { Raised("Exception") } \cup { Returned(a) : a \in Answers }

\* the names _determine_agent looks for, in the order of its loop
ScanOrder ==
    <<K_direct, K_search, K_calendar, K_research, K_study_plan,
      K_document_analysis, K_general>>

\* _determine_agent, live branch: the answer is stripped and lowercased and
\* replaced by the first name of the loop that occurs in it
DetermineAgent(answer) ==
    LET agent_choice == Lower(Strip(answer))
        hits == { i \in 1..Len(ScanOrder) : Contains(agent_choice, ScanOrder[i]) }
    IN  IF hits = {} THEN agent_choice
        ELSE ScanOrder[CHOOSE i \in hits : \A j \in hits : i <= j]

\* _generate_action_explanation
ActionExplanation(agent_choice, q) ==
    CASE agent_choice = K_direct -> <<"I can answer this directly based on my knowledge.">>
      [] agent_choice = K_search -> <<"To give you the most accurate information, I need to perform a search.">>
      [] agent_choice = K_calendar -> <<"This appears to be a calendar-related request, so I'll use the calendar tool to help you.">>
      [] agent_choice = K_research -> <<"This question requires in-depth research to provide you with a comprehensive answer.">>
      [] agent_choice = K_study_plan -> <<"I'll create a customized study plan based on your request.">>
      [] agent_choice = K_document_analysis -> <<"I'll analyze the document to extract the information you need.">>
      [] agent_choice = K_general -> <<"I'll provide a thoughtful response to your question.">>
      [] OTHER -> <<"I'll process your request using specialized tools for: ">> \o q

\* MultiAgentSystem.get_agent_response: the registry key that is used
RegisteredUnder(agent_type) ==
    IF \E cap \in Registry : KeyText(cap) = agent_type
    THEN CHOOSE cap \in Registry : KeyText(cap) = agent_type
    ELSE "general"

\* the using_real_implementation flag of a capability, FALSE where it has none
IsReal(flags, cap) == cap \in DOMAIN flags /\ flags[cap]

\* MultiAgentSystem.get_agent_response
GetAgentResponse(flags, agent_type, q, backend) ==
    LET cap == RegisteredUnder(agent_type)
    IN  GetResponse(cap, q, IsReal(flags, cap), backend)

\* _mock_process with the science rule of the specified order put first
MockProcessChoice_ScienceFirst(ql) ==
    IF AnyIn({K_restaurant, K_food, K_eat}, ql) THEN "research"
    ELSE IF AnyIn({K_science, K_physics, K_entropy, K_quantum}, ql) THEN "research"
    ELSE IF AnyIn({K_calendar, K_schedule, K_meeting}, ql) THEN "calendar"
    ELSE "general"

\* _mock_process: the keyword rules, first match wins
MockProcessChoice(ql) ==
    IF Contains(ql, K_restaurant) \/ Contains(ql, K_food) \/ Contains(ql, K_eat)
    THEN "research"
    ELSE IF Contains(ql, K_calendar) \/ Contains(ql, K_schedule) \/ Contains(ql, K_meeting)
    THEN "calendar"
    ELSE "general"

\* the reasoning text _mock_process writes
MockReasoning(q, agent_choice) ==
    <<"# Query Analysis: Step-by-Step Reasoning\n\nI'm analyzing the query: \"">> \o q
    \o <<"\"\n\n## Step 1: Identify Query Type\n">>
    \o CASE agent_choice = "research" -> <<"This is a recommendation query about restaurants or food.">>
         [] agent_choice = "calendar" -> <<"This is a calendar management query.">>
         [] OTHER -> <<"This appears to be a general knowledge or conversational query.">>

\* steps 2 and 3 and the final determination _mock_process writes
MockRationale(agent_choice) ==
    CASE agent_choice = "research" ->
            <<"\n\n## Step 2: Required Information ... I'll use the research agent to find the best restaurant recommendations based on your query.\n\n">>
      [] agent_choice = "calendar" ->
            <<"\n\n## Step 2: Required Information ... I'll use the calendar agent to help you with your scheduling needs.\n\n">>
      [] OTHER ->
            <<"\n\n## Step 2: Required Information ... I'll provide a direct response to your query.\n\n">>

\* the text process_query returns when its except clause catches exc
ReactErrorText(exc) == <<"I encountered an error while processing your query: ", exc>>

MockProcess_LiveOnly(flags, q, backend) ==
    LET matched == MockProcessChoice(Lower(q))
        agent_choice == IF IsReal(flags, matched) THEN matched ELSE "general"
        specialized == GetAgentResponse(flags, KeyText(agent_choice), q, backend)
    IN  [NoOutcome EXCEPT
            !.op = "process_query",
            !.stage = "mock",
            !.choice = KeyText(agent_choice),
            !.invoked = <<RegisteredUnder(KeyText(agent_choice))>>,
            !.asked = <<q>>,
            !.response = specialized.text,
            !.failed = (CallsBackend(agent_choice, IsReal(flags, agent_choice))
                            /\ backend.exc # "none"),
            !.exc = specialized.exc,
            !.text = IF specialized.exc # "none" THEN <<>>
                     ELSE <<"# Response\n\n">> \o MockReasoning(q, agent_choice)
                          \o MockRationale(agent_choice) \o specialized.text]

\* ReactAgent._mock_process: no try/except around the delegated call
MockProcess(flags, q, backend) ==
    LET agent_choice == MockProcessChoice(Lower(q))
        specialized == GetAgentResponse(flags, KeyText(agent_choice), q, backend)
    IN  [NoOutcome EXCEPT
            !.op = "process_query",
            !.stage = "mock",
            !.choice = KeyText(agent_choice),
            !.invoked = <<RegisteredUnder(KeyText(agent_choice))>>,
            !.asked = <<q>>,
            !.response = specialized.text,
            !.failed = (CallsBackend(agent_choice, IsReal(flags, agent_choice))
                            /\ backend.exc # "none"),
            !.exc = specialized.exc,
            !.text = IF specialized.exc # "none" THEN <<>>
                     ELSE <<"# Response\n\n">> \o MockReasoning(q, agent_choice)
                          \o MockRationale(agent_choice) \o specialized.text]

\* ReactAgent.process_query, live branch: reason, decide, delegate; every
\* exception is turned into the error text
LiveProcess(flags, q, reasoning, decision, backend) ==
    IF reasoning.exc # "none"
    THEN [NoOutcome EXCEPT !.op = "process_query", !.stage = "reasoning_failed",
                           !.text = ReactErrorText(reasoning.exc)]
    ELSE IF decision.exc # "none"
    THEN [NoOutcome EXCEPT !.op = "process_query", !.stage = "decision_failed",
                           !.text = ReactErrorText(decision.exc)]
    ELSE LET agent_choice == DetermineAgent(decision.text)
             action_explanation == ActionExplanation(agent_choice, q)
         IN  IF agent_choice = K_direct
             THEN [NoOutcome EXCEPT
                     !.op = "process_query", !.stage = "direct",
                     !.answer = decision.text, !.choice = agent_choice,
                     !.text = <<"# Response\n\n">> \o Strip(reasoning.text)
                              \o <<"\n\n">> \o action_explanation]
             ELSE LET cap == RegisteredUnder(agent_choice)
                      specialized == GetAgentResponse(flags, agent_choice, q, backend)
                  IN  [NoOutcome EXCEPT
                         !.op = "process_query", !.stage = "delegated",
                         !.answer = decision.text, !.choice = agent_choice,
                         !.invoked = <<cap>>,
                         !.asked = <<q>>,
                         !.response = specialized.text,
                         !.failed = (CallsBackend(cap, IsReal(flags, cap))
                                        /\ backend.exc # "none"),
                         !.text = IF specialized.exc # "none"
                                  THEN ReactErrorText(specialized.exc)
                                  ELSE <<"# Response\n\n">> \o action_explanation
                                       \o <<"\n\n">> \o specialized.text]

RouterInit ==
    /\ query \in Queries
    /\ react_real \in BOOLEAN
    /\ real_impl \in [LiveCaps -> BOOLEAN]
    /\ out = NoOutcome
    /\ boot = Started
    /\ CalendarUnused
    /\ first = NoFirst
    /\ http = NoHttp
    /\ LateUnused
    /\ disk = EmptyMap
    /\ memories = EmptyMap
    /\ ret = NoResult
    /\ got = NoResult
    /\ save_failures = 0

\* A behaviour serves one request on the constructed system: process_query
\* and get_response assign no attribute of the router or of a capability, so
\* a later request starts from the state the first one started from.
Idle == out = NoOutcome

\* MultiAgentSystem.process_query(query)
process_query ==
    /\ Idle
    /\ IF ~react_real
       THEN \E backend \in BackendOutcomes :
                out' = MockProcess(real_impl, query, backend)
       ELSE \E reasoning \in ReasoningOutcomes, decision \in DecisionOutcomes,
               backend \in BackendOutcomes :
                out' = LiveProcess(real_impl, query, reasoning, decision, backend)
    /\ UNCHANGED <<query, react_real, real_impl, storeVars, otherVars>>

\* multi_agent_system.agents[cap].get_response(query)
get_response(cap) ==
    /\ Idle
    /\ \E backend \in BackendOutcomes :
         LET r == GetResponse(cap, query, IsReal(real_impl, cap), backend)
         IN  out' = [NoOutcome EXCEPT
                        !.op = "get_response", !.cap = cap,
                        !.invoked = <<cap>>,
                        !.asked = <<query>>,
                        !.response = r.text,
                        !.failed = (CallsBackend(cap, IsReal(real_impl, cap))
                                        /\ backend.exc # "none"),
                        !.exc = r.exc, !.text = r.text]
    /\ UNCHANGED <<query, react_real, real_impl, storeVars, otherVars>>

RouterNext ==
    \/ process_query
    \/ \E cap \in Registry : get_response(cap)

RouterSpec == RouterInit /\ [][RouterNext]_vars

\* the agent_type arguments of get_agent_response: every key of the registry
\* and two texts that are no key
AgentTypes == { KeyText(cap) : cap \in Registry } \cup {K_direct, A_maybe}

\* multi_agent_system.get_agent_response(agent_type, query)
get_agent_response(agent_type) ==
    /\ Idle
    /\ \E backend \in BackendOutcomes :
         LET cap == RegisteredUnder(agent_type)
             r == GetAgentResponse(real_impl, agent_type, query, backend)
         IN  out' = [NoOutcome EXCEPT
                        !.op = "get_agent_response",
                        !.choice = agent_type,
                        !.cap = cap,
                        !.invoked = IF r.exc = "AttributeError" THEN <<>> ELSE <<cap>>,
                        !.asked = <<query>>,
                        !.response = r.text,
                        !.failed = (CallsBackend(cap, IsReal(real_impl, cap))
                                        /\ backend.exc # "none"),
                        !.exc = r.exc, !.text = r.text]
    /\ UNCHANGED <<query, react_real, real_impl, storeVars, otherVars>>

DispatchNext == \E agent_type \in AgentTypes : get_agent_response(agent_type)

DispatchSpec == RouterInit /\ [][DispatchNext]_vars

----------------------------------------------------------------------------
(* calendar_agent.py: CalendarAgent *)

K_event == <<"e", "v", "e", "n", "t">>
K_for == <<"f", "o", "r">>

\* self.agent_id
CalendarAgentId == <<"calendar_agent">>

\* the server threads that handle calendar requests at the same time
Requests == {1, 2}

\* the queries of the calendar requests
CalendarQueries == { Join(<<W_schedule, W_meeting>>, <<" ">>), W_entropy }

\* the modules whose capability probes the completion service when it is built
Modules == {"calendar_agent", "simple_search_agent", "agent_controller"}

\* for attempt in range(3)
TrialAttempts == 3

\* the passes of a provider's loop: calendar_agent.py retries, the search
\* agent and get_azure_model of agent_controller.py make one trial call
TrialAttemptsOf(module) == IF module = "calendar_agent" THEN TrialAttempts ELSE 1

\* agent_controller.py probes Azure only
HasOpenAI(module) == module # "agent_controller"

\* what test_agent.print_response("Test") does: returns, or raises
TrialOutcomes == {"connected", "failed"}

\* __init__ of the capability has been entered: the environment holds or
\* lacks the Azure and OpenAI keys and the Google credential files
ConstructionEntered ==
    { [NoConstruction EXCEPT !.module = m, !.pc = "azure", !.azure_key = a,
                             !.openai_key = o, !.files = f] :
        m \in Modules, a \in BOOLEAN, o \in BOOLEAN, f \in BOOLEAN }

TrialStep_KeepsProbing(c, provider, after, trial) ==
    [c EXCEPT !.pc = IF c.attempt + 1 = TrialAttemptsOf(c.module)
                     THEN (IF trial = "connected" \/ c.model # "none"
                           THEN "create_agent" ELSE after)
                     ELSE c.pc,
              !.model = IF trial = "connected" THEN provider ELSE @,
              !.attempt = IF c.attempt + 1 = TrialAttemptsOf(c.module) THEN 0 ELSE @ + 1,
              !.trials = @ + 1,
              !.failed = IF trial = "connected" THEN @ ELSE @ + 1]

\* one pass of a retry loop: the trial call of this attempt; the loop is
\* left with the model at the first call that returns, and without one after
\* the last attempt
TrialStep(c, provider, after, trial) ==
    IF trial = "connected"
    THEN [c EXCEPT !.pc = "create_agent", !.model = provider, !.attempt = 0,
                   !.trials = @ + 1]
    ELSE [c EXCEPT !.pc = IF c.attempt + 1 = TrialAttemptsOf(c.module) THEN after ELSE c.pc,
                   !.attempt = IF c.attempt + 1 = TrialAttemptsOf(c.module) THEN 0 ELSE @ + 1,
                   !.trials = @ + 1,
                   !.failed = @ + 1]

\* _get_azure_model: no trial call without key and endpoint
get_azure_model(trial) ==
    /\ ctor.pc = "azure"
    /\ ctor' = IF ~ctor.azure_key
               THEN [ctor EXCEPT !.pc = "openai"]
               ELSE TrialStep(ctor, "azure", "openai", trial)
    /\ ~ctor.azure_key => trial = "failed"
    /\ UNCHANGED <<using_real_implementation, reqs, storeVars, routerVars,
                   boot, first, http, lateVars>>

\* _get_openai_model, reached when _get_azure_model returned None
get_openai_model(trial) ==
    /\ ctor.pc = "openai"
    /\ ctor' = IF ~ctor.openai_key \/ ~HasOpenAI(ctor.module)
               THEN [ctor EXCEPT !.pc = "create_agent"]
               ELSE TrialStep(ctor, "openai", "create_agent", trial)
    /\ (~ctor.openai_key \/ ~HasOpenAI(ctor.module)) => trial = "failed"
    /\ UNCHANGED <<using_real_implementation, reqs, storeVars, routerVars,
                   boot, first, http, lateVars>>

\* _create_agent needs the Google credential files in calendar_agent.py
FilesMissing(c) == c.module = "calendar_agent" /\ ~c.files

\* the rest of _create_agent and of __init__: without a model, without the
\* credential files, or when the tools or the Agent cannot be built, the
\* agent is None; using_real_implementation = agent is not None
create_agent(built) ==
    /\ ctor.pc = "create_agent"
    /\ (ctor.model = "none" \/ FilesMissing(ctor)) => ~built
    /\ memories' = IF ctor.module = "calendar_agent" /\ ctor.model # "none"
                      /\ ~FilesMissing(ctor)
                   THEN GetMemoryMap(memories, CalendarAgentId)
                   ELSE memories
    /\ using_real_implementation' = built
    /\ ctor' = [ctor EXCEPT !.pc = "done"]
    /\ UNCHANGED <<reqs, disk, ret, got, save_failures, routerVars, boot, first, http, lateVars>>

CalendarEventCreated(title, date, time) ==
    <<"# Calendar Event Created \n\n## Event Details\n- Title: ">> \o title
    \o <<"\n- Date: ">> \o date \o <<"\n- Time: ">> \o time
    \o <<"\n\nThe event has been successfully added to your calendar.\n\nWould you like to set a reminder for this event?">>

CalendarEventUpdated(original, details) ==
    <<"# Calendar Event Updated \n\n## Updated Event Details\n- Original Event: ">> \o original
    \o <<"\n- New Details: ">> \o details
    \o <<"\n\nYour calendar has been successfully updated.\n\nIs there anything else you'd like to modify about this event?">>

CalendarEventDeleted(event) ==
    <<"# Calendar Event Deleted \n\nThe event \"">> \o event
    \o <<"\" has been removed from your calendar.\n\nWould you like me to help you schedule a different event?">>

CalendarEventsFor(time_period) ==
    <<"# Calendar Events for ">> \o time_period
    \o <<"\n\n## Morning ... ## Afternoon ...\n\nThese are your scheduled events for ">>
    \o time_period
    \o <<". Would you like to add a new event or modify an existing one?">>

CalendarAgentInformation ==
    <<"# Calendar Information\n\nI can help you manage your calendar. You can ask me to: ... What would you like to do with your calendar?">>

\* list[-1] of Python
LastPart(parts) == parts[Len(parts)]

\* CalendarAgent._mock_response of calendar_agent.py: every split is guarded
CalendarAgentMockResponse(q) ==
    LET ql == Lower(q)
    IN  IF AnyIn({K_add, K_create, K_schedule}, ql)
        THEN CalendarEventCreated(
                IF Contains(q, K_titled)
                THEN Strip(Split(Split(q, K_titled)[2], K_sp_on_sp)[1])
                ELSE <<"New Event">>,
                IF Contains(q, K_on_sp)
                THEN Strip(Split(Split(q, K_on_sp)[2], K_sp_at_sp)[1])
                ELSE <<"Tomorrow">>,
                IF Contains(q, K_at_sp)
                THEN Strip(Split(q, K_at_sp)[2])
                ELSE <<"9:00 AM">>)
        ELSE IF AnyIn({K_edit, K_update, K_change}, ql)
        THEN CalendarEventUpdated(
                IF Contains(q, K_event)
                THEN Strip(Split(Split(q, K_event)[2], K_to)[1])
                ELSE <<"Unknown Event">>,
                IF Contains(q, K_to)
                THEN Strip(Split(q, K_to)[2])
                ELSE <<"Updated Details">>)
        ELSE IF AnyIn({K_delete, K_remove, K_cancel}, ql)
        THEN CalendarEventDeleted(
                IF Contains(q, K_delete) THEN Strip(Split(q, K_delete)[2])
                ELSE IF Contains(q, K_remove) THEN Strip(Split(q, K_remove)[2])
                ELSE IF Contains(q, K_cancel) THEN Strip(Split(q, K_cancel)[2])
                ELSE <<"Unknown Event">>)
        ELSE IF AnyIn({K_show, K_list, K_view}, ql)
        THEN CalendarEventsFor(
                IF Contains(q, K_for) THEN Strip(LastPart(Split(q, K_for)))
                ELSE <<"today">>)
        ELSE CalendarAgentInformation

\* _enhance_calendar_query
EnhanceCalendarQuery(q) ==
    LET ql == Lower(q)
        named == Contains(ql, K_calendar)
    IN  IF AnyIn({K_add, K_create, K_schedule}, ql)
        THEN IF named THEN q ELSE <<"Add this event to my calendar: ">> \o q
        ELSE IF AnyIn({K_edit, K_update, K_change}, ql)
        THEN IF named THEN q ELSE <<"Update this calendar event: ">> \o q
        ELSE IF AnyIn({K_delete, K_remove, K_cancel}, ql)
        THEN IF named THEN q ELSE <<"Delete this calendar event: ">> \o q
        ELSE IF AnyIn({K_show, K_view, K_list}, ql)
        THEN IF named THEN q ELSE <<"Show my calendar events: ">> \o q
        ELSE q

\* the prompt of the live branch of get_response: the history is put before
\* the query when the log holds more than 2 messages
CalendarPrompt(mems, q) ==
    LET log == GetMemoryMap(mems, CalendarAgentId)[CalendarAgentId]
        history == FormatHistory(RecentMessages(log, DefaultMaxMessages))
    IN  IF history # <<>> /\ Len(log) > 2
        THEN <<"Previous conversation:\n">> \o history \o <<"\n\nNew request: ">> \o q
        ELSE EnhanceCalendarQuery(q)

\* the frame agno draws around the printed answer
BoxAtoms == {"BOX_TOP Response\n", "BOX_SIDE", "BOX_BOTTOM"}

\* what self.agent.print_response writes to stdout, or the exception it raises
CalendarBackendOutcomes ==
    { Raised("Exception"),
      Returned(<<"BOX_TOP Response\n", "BOX_SIDE", " ", "The meeting is on your calendar.",
                 " ", "BOX_SIDE", "\n", "BOX_BOTTOM">>) }

\* extract_important_content: the box-drawing characters are removed and the
\* text is stripped
ExtractImportantContent(text) ==
    Strip(SelectSeq(text, LAMBDA x : x \notin BoxAtoms))

\* error_msg of get_response
CalendarAgentErrorText(exc) ==
    <<"I encountered an error while trying to manage your calendar: ", exc,
      "\n\nPlease check your Google Calendar permissions and try again.">>

\* a thread that has not taken a request yet
NoRequest ==
    [pc |-> "idle", query |-> <<>>, prompt |-> <<>>, response |-> <<>>,
     result |-> <<>>, failed |-> FALSE, user_at |-> 0, ai_at |-> 0]

CalendarInit ==
    /\ ctor \in ConstructionEntered
    /\ using_real_implementation = FALSE
    /\ reqs = [t \in Requests |-> NoRequest]
    /\ disk = EmptyMap
    /\ memories = EmptyMap
    /\ ret = NoResult
    /\ got = NoResult
    /\ save_failures = 0
    /\ boot = Started
    /\ query = <<>>
    /\ react_real = FALSE
    /\ real_impl = EmptyMap
    /\ out = NoOutcome
    /\ first = NoFirst
    /\ http = NoHttp
    /\ LateUnused

\* memory_manager.add_user_message / add_ai_message called by get_response:
\* the store after the call
StoreAfterAdd(role, message, outcome) ==
    LET created == GetMemoryMap(memories, CalendarAgentId)
        appended == [created EXCEPT
                        ![CalendarAgentId] = AppendMessage(@, Message(role, message))]
    IN  [memories |-> appended,
         disk |-> SaveMemory(appended, disk, CalendarAgentId, outcome)]

cal_add_user_message_Locked(t, q, outcome) ==
    /\ ctor.pc = "done"
    /\ ctor.module = "calendar_agent"
    /\ reqs[t].pc = "idle"
    /\ \A u \in Requests : reqs[u].pc \in {"idle", "returned"}
    /\ SaveAttempt(outcome)
    /\ LET after == StoreAfterAdd("user", q, outcome)
       IN  /\ memories' = after.memories
           /\ disk' = after.disk
           /\ reqs' = [reqs EXCEPT ![t] = [@ EXCEPT !.pc = "user_added", !.query = q,
                                            !.user_at = Len(after.memories[CalendarAgentId])]]
    /\ UNCHANGED <<ctor, using_real_implementation, ret, got, routerVars, boot, first, http, lateVars>>

\* get_response, line 279: the user message is appended to the log
cal_add_user_message(t, q, outcome) ==
    /\ ctor.pc = "done"
    /\ ctor.module = "calendar_agent"
    /\ reqs[t].pc = "idle"
    /\ SaveAttempt(outcome)
    /\ LET after == StoreAfterAdd("user", q, outcome)
       IN  /\ memories' = after.memories
           /\ disk' = after.disk
           /\ reqs' = [reqs EXCEPT ![t] = [@ EXCEPT !.pc = "user_added", !.query = q,
                                            !.user_at = Len(after.memories[CalendarAgentId])]]
    /\ UNCHANGED <<ctor, using_real_implementation, ret, got, routerVars, boot, first, http, lateVars>>

cal_produce_response_FallsBackForGood(t, backend) ==
    /\ reqs[t].pc = "user_added"
    /\ IF ~using_real_implementation
       THEN /\ reqs' = [reqs EXCEPT ![t] = [@ EXCEPT
                            !.pc = "responded",
                            !.response = CalendarAgentMockResponse(reqs[t].query)]]
            /\ UNCHANGED <<memories, using_real_implementation>>
       ELSE /\ memories' = GetMemoryMap(memories, CalendarAgentId)
            /\ using_real_implementation' = (backend.exc = "none")
            /\ reqs' = [reqs EXCEPT ![t] =
                          IF backend.exc # "none"
                          THEN [@ EXCEPT !.pc = "returned", !.failed = TRUE,
                                         !.prompt = CalendarPrompt(memories, reqs[t].query),
                                         !.result = CalendarAgentErrorText(backend.exc)]
                          ELSE [@ EXCEPT !.pc = "responded",
                                         !.prompt = CalendarPrompt(memories, reqs[t].query),
                                         !.response = ExtractImportantContent(backend.text)]]
    /\ UNCHANGED <<ctor, disk, ret, got, save_failures, routerVars, boot, first, http, lateVars>>

cal_produce_response_LogsError(t, backend) ==
    /\ reqs[t].pc = "user_added"
    /\ IF ~using_real_implementation
       THEN /\ reqs' = [reqs EXCEPT ![t] = [@ EXCEPT
                            !.pc = "responded",
                            !.response = CalendarAgentMockResponse(reqs[t].query)]]
            /\ UNCHANGED memories
       ELSE /\ memories' = GetMemoryMap(memories, CalendarAgentId)
            /\ reqs' = [reqs EXCEPT ![t] =
                          IF backend.exc # "none"
                          THEN [@ EXCEPT !.pc = "responded",
                                         !.prompt = CalendarPrompt(memories, reqs[t].query),
                                         !.response = CalendarAgentErrorText(backend.exc)]
                          ELSE [@ EXCEPT !.pc = "responded",
                                         !.prompt = CalendarPrompt(memories, reqs[t].query),
                                         !.response = ExtractImportantContent(backend.text)]]
    /\ UNCHANGED <<ctor, using_real_implementation, disk, ret, got, save_failures,
                   routerVars, boot, first, http, lateVars>>

\* get_response, lines 281-305 and 310-314: the response is produced, by
\* _mock_response or by the agent; when the agent raises, the error text is
\* returned and nothing more is appended
cal_produce_response(t, backend) ==
    /\ reqs[t].pc = "user_added"
    /\ IF ~using_real_implementation
       THEN /\ reqs' = [reqs EXCEPT ![t] = [@ EXCEPT
                            !.pc = "responded",
                            !.response = CalendarAgentMockResponse(reqs[t].query)]]
            /\ UNCHANGED memories
       ELSE /\ memories' = GetMemoryMap(memories, CalendarAgentId)
            /\ reqs' = [reqs EXCEPT ![t] =
                          IF backend.exc # "none"
                          THEN [@ EXCEPT !.pc = "returned", !.failed = TRUE,
                                         !.prompt = CalendarPrompt(memories, reqs[t].query),
                                         !.result = CalendarAgentErrorText(backend.exc)]
                          ELSE [@ EXCEPT !.pc = "responded",
                                         !.prompt = CalendarPrompt(memories, reqs[t].query),
                                         !.response = ExtractImportantContent(backend.text)]]
    /\ UNCHANGED <<ctor, using_real_implementation, disk, ret, got, save_failures,
                   routerVars, boot, first, http, lateVars>>

cal_add_ai_message_AsUser(t, outcome) ==
    /\ reqs[t].pc = "responded"
    /\ SaveAttempt(outcome)
    /\ LET after == StoreAfterAdd("user", reqs[t].response, outcome)
       IN  /\ memories' = after.memories
           /\ disk' = after.disk
           /\ reqs' = [reqs EXCEPT ![t] = [@ EXCEPT !.pc = "ai_added",
                                            !.ai_at = Len(after.memories[CalendarAgentId])]]
    /\ UNCHANGED <<ctor, using_real_implementation, ret, got, routerVars, boot, first, http, lateVars>>

\* get_response, lines 284 and 308: the response is appended to the log
cal_add_ai_message(t, outcome) ==
    /\ reqs[t].pc = "responded"
    /\ SaveAttempt(outcome)
    /\ LET after == StoreAfterAdd("assistant", reqs[t].response, outcome)
       IN  /\ memories' = after.memories
           /\ disk' = after.disk
           /\ reqs' = [reqs EXCEPT ![t] = [@ EXCEPT !.pc = "ai_added",
                                            !.ai_at = Len(after.memories[CalendarAgentId])]]
    /\ UNCHANGED <<ctor, using_real_implementation, ret, got, routerVars, boot, first, http, lateVars>>

\* get_response, lines 285 and 309: the response is returned
cal_return(t) ==
    /\ reqs[t].pc = "ai_added"
    /\ reqs' = [reqs EXCEPT ![t] = [@ EXCEPT !.pc = "returned", !.result = reqs[t].response]]
    /\ UNCHANGED <<ctor, using_real_implementation, storeVars, routerVars, boot, first, http, lateVars>>

Construct ==
    \/ \E trial \in TrialOutcomes : get_azure_model(trial)
    \/ \E trial \in TrialOutcomes : get_openai_model(trial)
    \/ \E built \in BOOLEAN : create_agent(built)

CalendarNext ==
    \/ Construct
    \/ \E t \in Requests, q \in CalendarQueries, o \in SaveOutcomes :
          cal_add_user_message(t, q, o)
    \/ \E t \in Requests, backend \in CalendarBackendOutcomes : cal_produce_response(t, backend)
    \/ \E t \in Requests, o \in SaveOutcomes : cal_add_ai_message(t, o)
    \/ \E t \in Requests : cal_return(t)

CalendarSpec == CalendarInit /\ [][CalendarNext]_vars

\* the constructor runs to its end: every step of it returns or raises
CalendarFairSpec == CalendarSpec /\ WF_vars(Construct)

----------------------------------------------------------------------------
(* calendar_agent.py and agent_controller.py: the calendar operations in   *)
(* fallback mode, called one after the other                               *)

MaxCalls == 2       \* calendar operations called one after the other

\* titles, dates and times of the scheduling queries
Titles ==
    { <<"T", "e", "a", "m", " ", "S", "y", "n", "c">>,
      <<"M", "a", "r", "a", "t", "h", "o", "n", " ", "p", "r", "e", "p">>,
      <<"C", "h", "a", "t", " ", "r", "o", "o", "m">> }

Dates ==
    { <<"A", "p", "r", "i", "l", " ", "3", "0", ",", " ", "2", "0", "2", "5">>,
      <<"M", "a", "y", " ", "1">> }

Times ==
    { <<"2", ":", "0", "0", " ", "P", "M">>,
      <<"n", "o", "o", "n">> }

\* 'Schedule a meeting titled <T> on <D> at <H>'
ScheduleQuery(title, date, time) ==
    <<"S", "c", "h", "e", "d", "u", "l", "e", " ", "a", " ", "m", "e", "e", "t", "i",
      "n", "g", " ", "t", "i", "t", "l", "e", "d", " ">>
    \o title \o <<" ", "o", "n", " ">> \o date \o <<" ", "a", "t", " ">> \o time

\* argument texts of schedule_event, update_event and delete_event
EventTexts ==
    { <<"T", "e", "a", "m", " ", "S", "y", "n", "c">>,
      <<"M", "a", "r", "a", "t", "h", "o", "n", " ", "p", "r", "e", "p">>,
      <<"a", "d", "d", "r", "e", "s", "s", " ", "r", "e", "v", "i", "e", "w">> }

\* argument texts of list_events
TimePeriods ==
    { <<"t", "o", "d", "a", "y">>,
      <<"A", "p", "r", "i", "l", " ", "2", "5">>,
      <<"f", "o", "r", "e", "v", "e", "r">> }

\* f"Schedule the following event: {details}"
ScheduleEventQuery(details) ==
    <<"S", "c", "h", "e", "d", "u", "l", "e", " ", "t", "h", "e", " ", "f", "o", "l",
      "l", "o", "w", "i", "n", "g", " ", "e", "v", "e", "n", "t", ":", " ">>
    \o details

\* f"Update the calendar event '{original_event}' to {new_details}"
UpdateEventQuery(original_event, new_details) ==
    <<"U", "p", "d", "a", "t", "e", " ", "t", "h", "e", " ", "c", "a", "l", "e", "n",
      "d", "a", "r", " ", "e", "v", "e", "n", "t", " ", "'">>
    \o original_event \o <<"'", " ", "t", "o", " ">> \o new_details

\* f"Delete the calendar event: {event_to_delete}"
DeleteEventQuery(event_to_delete) ==
    <<"D", "e", "l", "e", "t", "e", " ", "t", "h", "e", " ", "c", "a", "l", "e", "n",
      "d", "a", "r", " ", "e", "v", "e", "n", "t", ":", " ">>
    \o event_to_delete

\* f"Show my calendar events for {time_period}"
ListEventsQuery(time_period) ==
    <<"S", "h", "o", "w", " ", "m", "y", " ", "c", "a", "l", "e", "n", "d", "a", "r",
      " ", "e", "v", "e", "n", "t", "s", " ", "f", "o", "r", " ">>
    \o time_period

\* get_response of calendar_agent.py in fallback mode (lines 279-285): the
\* query and the response of _mock_response are appended to the log, each
\* append followed by a save that succeeds
MockExchange(mems, dsk, q, response) ==
    LET created == GetMemoryMap(mems, CalendarAgentId)
        asked == [created EXCEPT
                    ![CalendarAgentId] = AppendMessage(@, Message("user", q))]
        asked_saved == SaveMemory(asked, dsk, CalendarAgentId, "ok")
        answered == [asked EXCEPT
                    ![CalendarAgentId] = AppendMessage(@, Message("assistant", response))]
    IN  [memories |-> answered,
         disk |-> SaveMemory(answered, asked_saved, CalendarAgentId, "ok")]

FallbackFrame ==
    UNCHANGED <<ret, got, save_failures, routerVars, boot, calendarVars, first, http,
                raceVars>>

\* fewer than MaxCalls operations have been called
MoreCalls == call.made < MaxCalls

\* calendar_agent.get_response(q), reached through the operation op
MockGetResponse(op, args, q) ==
    /\ ~using_real_implementation
    /\ LET response == CalendarAgentMockResponse(q)
           after == MockExchange(memories, disk, q, response)
       IN  /\ call' = [op |-> op, args |-> args, query |-> q, response |-> response,
                       made |-> call.made + 1]
           /\ memories' = after.memories
           /\ disk' = after.disk
    /\ FallbackFrame

process_calendar_query(q) ==
    /\ MoreCalls
    /\ MockGetResponse("process_calendar_query", <<q>>, q)

schedule_event(details) ==
    /\ MoreCalls
    /\ MockGetResponse("schedule_event", <<details>>, ScheduleEventQuery(details))

update_event(original_event, new_details) ==
    /\ MoreCalls
    /\ MockGetResponse("update_event", <<original_event, new_details>>,
                       UpdateEventQuery(original_event, new_details))

delete_event(event_to_delete) ==
    /\ MoreCalls
    /\ MockGetResponse("delete_event", <<event_to_delete>>,
                       DeleteEventQuery(event_to_delete))

list_events(time_period) ==
    /\ MoreCalls
    /\ MockGetResponse("list_events", <<time_period>>, ListEventsQuery(time_period))

\* CalendarAgent.get_response of agent_controller.py in fallback mode: it keeps
\* no log
controller_calendar_get_response(q) ==
    /\ MoreCalls
    /\ LET answer == CalendarMockResponse(q)
       IN  call' = [op |-> "controller_get_response", args |-> <<q>>, query |-> q,
                    response |-> IF answer.exc = "none" THEN answer.text
                                 ELSE <<answer.exc>>,
                    made |-> call.made + 1]
    /\ UNCHANGED <<memories, disk>>
    /\ FallbackFrame

FallbackInit ==
    /\ call = NoCall
    /\ RaceUnused
    /\ ctor = [NoConstruction EXCEPT !.module = "calendar_agent", !.pc = "done"]
    /\ using_real_implementation = FALSE
    /\ reqs = <<>>
    /\ disk = EmptyMap
    /\ memories = EmptyMap
    /\ ret = NoResult
    /\ got = NoResult
    /\ save_failures = 0
    /\ boot = Started
    /\ query = <<>>
    /\ react_real = FALSE
    /\ real_impl = EmptyMap
    /\ out = NoOutcome
    /\ first = NoFirst
    /\ http = NoHttp

FallbackNext ==
    \/ \E title \in Titles, date \in Dates, time \in Times :
          process_calendar_query(ScheduleQuery(title, date, time))
    \/ \E details \in EventTexts : schedule_event(details)
    \/ \E original_event \in EventTexts, new_details \in EventTexts :
          update_event(original_event, new_details)
    \/ \E event_to_delete \in EventTexts : delete_event(event_to_delete)
    \/ \E time_period \in TimePeriods : list_events(time_period)
    \/ \E title \in Titles, date \in Dates, time \in Times :
          controller_calendar_get_response(ScheduleQuery(title, date, time))

FallbackSpec == FallbackInit /\ [][FallbackNext]_vars

----------------------------------------------------------------------------
(* agent_memory.py: two request threads appending to the store, line by line *)

\* the server threads that serve the two requests
Threads == {1, 2}

\* a thread that has not called the store yet; memory is its local variable
\* (0: not assigned)
NoThread == [pc |-> "idle", role |-> "none", agent_id |-> <<>>, message |-> "", memory |-> 0]

\* self.memories as the rest of the model sees it: agent_id -> list of messages
LogsOf(objs, rfs) == [a \in DOMAIN rfs |-> objs[rfs[a]]]

\* when the requests arrive, some agent ids have a log, still empty, and the
\* others have none
RaceInit ==
    /\ \E loaded \in SUBSET AgentIds :
          /\ objects = [i \in 1..Cardinality(loaded) |-> NewMemory]
          /\ refs \in [loaded -> 1..Cardinality(loaded)]
          /\ \A a, b \in loaded : a # b => refs[a] # refs[b]
    /\ threads = [t \in Threads |-> NoThread]
    /\ memories = LogsOf(objects, refs)
    /\ disk = EmptyMap
    /\ call = NoCall
    /\ ret = NoResult
    /\ got = NoResult
    /\ save_failures = 0
    /\ boot = Started
    /\ CalendarUnused
    /\ query = <<>>
    /\ react_real = FALSE
    /\ real_impl = EmptyMap
    /\ out = NoOutcome
    /\ first = NoFirst
    /\ http = NoHttp

RaceFrame ==
    UNCHANGED <<ret, got, save_failures, routerVars, boot, calendarVars, first, http, call>>

\* add_user_message / add_ai_message is entered (lines 86 and 98)
t_add_message(t, role, agent_id, message) ==
    /\ threads[t].pc = "idle"
    /\ threads' = [threads EXCEPT ![t] = [@ EXCEPT !.pc = "test", !.role = role,
                                           !.agent_id = agent_id, !.message = message]]
    /\ UNCHANGED <<objects, refs, memories, disk>>
    /\ RaceFrame

\* get_memory, line 82: if agent_id not in self.memories
t_get_memory_test(t) ==
    /\ threads[t].pc = "test"
    /\ threads' = [threads EXCEPT ![t] = [@ EXCEPT
                      !.pc = IF threads[t].agent_id \notin DOMAIN refs
                             THEN "create" ELSE "return"]]
    /\ UNCHANGED <<objects, refs, memories, disk>>
    /\ RaceFrame

\* get_memory, line 83: self.memories[agent_id] = Memory()
t_get_memory_create(t) ==
    /\ threads[t].pc = "create"
    /\ objects' = Append(objects, NewMemory)
    /\ refs' = (threads[t].agent_id :> Len(objects) + 1) @@ refs
    /\ memories' = LogsOf(objects', refs')
    /\ threads' = [threads EXCEPT ![t] = [@ EXCEPT !.pc = "return"]]
    /\ UNCHANGED disk
    /\ RaceFrame

\* get_memory, line 84, and the assignment memory = self.get_memory(agent_id)
t_get_memory_return(t) ==
    /\ threads[t].pc = "return"
    /\ threads' = [threads EXCEPT ![t] = [@ EXCEPT !.pc = "append",
                                           !.memory = refs[threads[t].agent_id]]]
    /\ UNCHANGED <<objects, refs, memories, disk>>
    /\ RaceFrame

\* memory.add_user_message(message) / memory.add_ai_message(message)
t_memory_append(t) ==
    /\ threads[t].pc = "append"
    /\ objects' = [objects EXCEPT ![threads[t].memory] =
                      AppendMessage(@, Message(threads[t].role, threads[t].message))]
    /\ memories' = LogsOf(objects', refs)
    /\ threads' = [threads EXCEPT ![t] = [@ EXCEPT !.pc = "save"]]
    /\ UNCHANGED <<refs, disk>>
    /\ RaceFrame

\* _save_memory(agent_id): the object the dictionary holds now is written
t_save_memory(t) ==
    /\ threads[t].pc = "save"
    /\ disk' = SaveMemory(memories, disk, threads[t].agent_id, "ok")
    /\ threads' = [threads EXCEPT ![t] = [@ EXCEPT !.pc = "done"]]
    /\ UNCHANGED <<objects, refs, memories>>
    /\ RaceFrame

RaceNext ==
    \/ \E t \in Threads, role \in {"user", "assistant"}, a \in AgentIds, m \in UserMessages :
          t_add_message(t, role, a, m)
    \/ \E t \in Threads : t_get_memory_test(t)
    \/ \E t \in Threads : t_get_memory_create(t)
    \/ \E t \in Threads : t_get_memory_return(t)
    \/ \E t \in Threads : t_memory_append(t)
    \/ \E t \in Threads : t_save_memory(t)

RaceSpec == RaceInit /\ [][RaceNext]_vars

----------------------------------------------------------------------------
(* agent_controller.py: two runs of the fallback router on one query *)

\* azure_model is None, or every capability was built on it
AllLiveOrNone == { [cap \in LiveCaps |-> b] : b \in BOOLEAN }

PairInit ==
    /\ query \in Queries
    /\ react_real = FALSE
    /\ real_impl \in AllLiveOrNone
    /\ out = NoOutcome
    /\ first = NoFirst
    /\ boot = Started
    /\ CalendarUnused
    /\ http = NoHttp
    /\ LateUnused
    /\ disk = EmptyMap
    /\ memories = EmptyMap
    /\ ret = NoResult
    /\ got = NoResult
    /\ save_failures = 0

\* an earlier MultiAgentSystem.process_query(query) of a fallback router: the
\* capabilities are live or not as they were then, and the store is as it is
earlier_process_query ==
    /\ first = NoFirst
    /\ Idle
    /\ ~react_real
    /\ \E flags \in [LiveCaps -> BOOLEAN], backend \in BackendOutcomes :
         first' = [out |-> MockProcess(flags, query, backend), memories |-> memories]
    /\ UNCHANGED <<storeVars, routerVars, boot, calendarVars, http, lateVars>>

PairNext ==
    \/ earlier_process_query
    \/ add_user_message(CalendarAgentId, "m1", "ok")
    \/ process_query

PairSpec == PairInit /\ [][PairNext]_vars

----------------------------------------------------------------------------
(* routes.py: the POST handlers of the API *)

Endpoints ==
    {"/search", "/calendar", "/calendar/schedule", "/calendar/update",
     "/calendar/delete", "/calendar/list", "/education", "/university-courses",
     "/university-courses/search", "/university-courses/info",
     "/university-courses/recommend"}

\* the body fields a handler reads
FieldsOf(endpoint) ==
    CASE endpoint = "/search" -> {"query"}
      [] endpoint = "/calendar" -> {"query", "action", "details", "original_event"}
      [] endpoint = "/calendar/schedule" -> {"details"}
      [] endpoint = "/calendar/update" -> {"original_event", "new_details"}
      [] endpoint = "/calendar/delete" -> {"event"}
      [] endpoint = "/calendar/list" -> {"time_period"}
      [] endpoint = "/education" -> {"query"}
      [] endpoint = "/university-courses" -> {"query", "university"}
      [] endpoint = "/university-courses/search" -> {"university", "subject"}
      [] endpoint = "/university-courses/info" -> {"university"}
      [] endpoint = "/university-courses/recommend" -> {"interests"}

\* the values a field is sent with: the empty string, or a text
FieldValues(field) ==
    IF field = "action" THEN {"", "add", "edit", "delete", "view", "other"}
    ELSE {"", "text"}

\* the JSON objects sent to an endpoint: any of its fields may be left out
BodiesOf(endpoint) ==
    UNION { { b \in [S -> UNION { FieldValues(f) : f \in S }] :
                \A f \in S : b[f] \in FieldValues(f) } :
            S \in SUBSET FieldsOf(endpoint) }

\* request.json: a JSON object, or None for the body null
RequestsTo(endpoint) ==
    { [NoHttp EXCEPT !.endpoint = endpoint, !.json = "object", !.body = b] :
        b \in BodiesOf(endpoint) }
    \cup { [NoHttp EXCEPT !.endpoint = endpoint, !.json = "null"] }

HttpRequests == UNION { RequestsTo(endpoint) : endpoint \in Endpoints }

\* the called function returns, or raises
CallOutcomes == {"returned", "raised"}

\* not data
NotData(h) == h.json = "null" \/ DOMAIN h.body = {}

\* 'field' in data (raises TypeError on None; the handlers test not data first)
InData(h, field) == h.json = "object" /\ field \in DOMAIN h.body

\* data.get(field, default)
DataGet(h, field, default) == IF field \in DOMAIN h.body THEN h.body[field] ELSE default

\* return jsonify({key: ...}), status
Reply(h, status, key, invoked) ==
    [h EXCEPT !.status = status, !.key = key, !.invoked = invoked]

\* return jsonify({'error': ...}), 400
BadRequest(h) == Reply(h, 400, "error", <<>>)

\* try: result = capability(...); return jsonify({key: result})
\* except Exception: return jsonify({'error': str(e)}), 500
Call(h, capability, key, outcome) ==
    IF outcome = "returned" THEN Reply(h, 200, key, <<capability>>)
    ELSE Reply(h, 500, "error", <<capability>>)

\* the request has come in on the endpoint and is not answered yet
Posted(endpoint) == http.endpoint = endpoint /\ http.status = 0

RoutesFrame == UNCHANGED <<storeVars, routerVars, boot, calendarVars, first, lateVars>>

search_endpoint(outcome) ==
    /\ Posted("/search")
    /\ http' = IF NotData(http) \/ ~InData(http, "query") THEN BadRequest(http)
               ELSE Call(http, "get_search_response", "response", outcome)
    /\ RoutesFrame

calendar_endpoint(outcome) ==
    /\ Posted("/calendar")
    /\ http' =
         IF NotData(http) THEN BadRequest(http)
         ELSE IF DataGet(http, "query", "") # ""
         THEN Call(http, "process_calendar_query", "result", outcome)
         ELSE LET action == DataGet(http, "action", "")
                  details == DataGet(http, "details", "")
              IN  IF action = "" \/ details = "" THEN BadRequest(http)
                  ELSE IF action = "add"
                  THEN Call(http, "schedule_calendar_event", "result", outcome)
                  ELSE IF action = "edit"
                  THEN IF DataGet(http, "original_event", "") = ""
                       THEN BadRequest(http)
                       ELSE Call(http, "update_calendar_event", "result", outcome)
                  ELSE IF action = "delete"
                  THEN Call(http, "delete_calendar_event", "result", outcome)
                  ELSE IF action = "view"
                  THEN Call(http, "list_calendar_events", "result", outcome)
                  ELSE BadRequest(http)
    /\ RoutesFrame

calendar_schedule_endpoint_NoCheck(outcome) ==
    /\ Posted("/calendar/schedule")
    /\ http' = IF ~InData(http, "details") THEN Reply(http, 500, "error", <<>>)
               ELSE Call(http, "schedule_calendar_event", "result", outcome)
    /\ RoutesFrame

calendar_schedule_endpoint(outcome) ==
    /\ Posted("/calendar/schedule")
    /\ http' = IF NotData(http) \/ ~InData(http, "details") THEN BadRequest(http)
               ELSE Call(http, "schedule_calendar_event", "result", outcome)
    /\ RoutesFrame

calendar_update_endpoint(outcome) ==
    /\ Posted("/calendar/update")
    /\ http' = IF NotData(http) \/ ~InData(http, "original_event")
                    \/ ~InData(http, "new_details")
               THEN BadRequest(http)
               ELSE Call(http, "update_calendar_event", "result", outcome)
    /\ RoutesFrame

calendar_delete_endpoint(outcome) ==
    /\ Posted("/calendar/delete")
    /\ http' = IF NotData(http) \/ ~InData(http, "event") THEN BadRequest(http)
               ELSE Call(http, "delete_calendar_event", "result", outcome)
    /\ RoutesFrame

\* no test of data: data.get raises AttributeError on None, inside the try
calendar_list_endpoint(outcome) ==
    /\ Posted("/calendar/list")
    /\ http' = IF http.json = "null" THEN Reply(http, 500, "error", <<>>)
               ELSE Call(http, "list_calendar_events", "result", outcome)
    /\ RoutesFrame

education_endpoint(outcome) ==
    /\ Posted("/education")
    /\ http' = IF NotData(http) \/ ~InData(http, "query") THEN BadRequest(http)
               ELSE Call(http, "get_education_guidance", "response", outcome)
    /\ RoutesFrame

university_courses_endpoint(outcome) ==
    /\ Posted("/university-courses")
    /\ http' = IF NotData(http) THEN BadRequest(http)
               ELSE IF DataGet(http, "query", "") # ""
               THEN Call(http, "get_course_recommendations", "response", outcome)
               ELSE BadRequest(http)
    /\ RoutesFrame

university_courses_search_endpoint(outcome) ==
    /\ Posted("/university-courses/search")
    /\ http' = IF NotData(http) \/ ~InData(http, "university") THEN BadRequest(http)
               ELSE Call(http, "get_university_courses", "result", outcome)
    /\ RoutesFrame

university_info_endpoint(outcome) ==
    /\ Posted("/university-courses/info")
    /\ http' = IF NotData(http) \/ ~InData(http, "university") THEN BadRequest(http)
               ELSE Call(http, "get_university_info", "result", outcome)
    /\ RoutesFrame

university_recommendations_endpoint(outcome) ==
    /\ Posted("/university-courses/recommend")
    /\ http' = IF NotData(http) \/ ~InData(http, "interests") THEN BadRequest(http)
               ELSE Call(http, "get_personalized_recommendations", "result", outcome)
    /\ RoutesFrame

RoutesInit ==
    /\ http \in HttpRequests
    /\ disk = EmptyMap
    /\ memories = EmptyMap
    /\ ret = NoResult
    /\ got = NoResult
    /\ save_failures = 0
    /\ boot = Started
    /\ CalendarUnused
    /\ query = <<>>
    /\ react_real = FALSE
    /\ real_impl = EmptyMap
    /\ out = NoOutcome
    /\ first = NoFirst
    /\ LateUnused

RoutesNext ==
    \/ \E outcome \in CallOutcomes : search_endpoint(outcome)
    \/ \E outcome \in CallOutcomes : calendar_endpoint(outcome)
    \/ \E outcome \in CallOutcomes : calendar_schedule_endpoint(outcome)
    \/ \E outcome \in CallOutcomes : calendar_update_endpoint(outcome)
    \/ \E outcome \in CallOutcomes : calendar_delete_endpoint(outcome)
    \/ \E outcome \in CallOutcomes : calendar_list_endpoint(outcome)
    \/ \E outcome \in CallOutcomes : education_endpoint(outcome)
    \/ \E outcome \in CallOutcomes : university_courses_endpoint(outcome)
    \/ \E outcome \in CallOutcomes : university_courses_search_endpoint(outcome)
    \/ \E outcome \in CallOutcomes : university_info_endpoint(outcome)
    \/ \E outcome \in CallOutcomes : university_recommendations_endpoint(outcome)

RoutesSpec == RoutesInit /\ [][RoutesNext]_vars

----------------------------------------------------------------------------
(* Properties of the memory store, checked under StoreSpec *)

AddOps == {"add_user_message", "add_ai_message"}

IsPrefix(s, t) == Len(s) <= Len(t) /\ SubSeq(t, 1, Len(s)) = s

\* the last k entries of a log, oldest first
LastEntries(log, k) == SubSeq(log, Len(log) - k + 1, Len(log))

\* the last "Role: content" block of a history text
LastBlock(text) == SubSeq(text, Len(text) - 2, Len(text))

\* the file of agent_id holds exactly the in-memory log
PersistedEqualsMemory(agent_id) ==
    /\ agent_id \in DOMAIN memories
    /\ MemoryPath(agent_id) \in DOMAIN disk
    /\ disk[MemoryPath(agent_id)] = PickledFile(memories[agent_id])

\* C3: get_conversation_history(agent_id, max_entries) returns exactly the
\* last min(N, max_entries) entries of the N-entry log, oldest first, one
\* block per entry, for every max_entries >= 0.
C3_HistoryIsLastMinEntries ==
    got.op = "get_conversation_history" =>
        LET log == LogOf(memories, got.agent)
        IN  got.text = FormatHistory(LastEntries(log, Min(Len(log), got.max)))

\* C4 as stated: after every add_user_message / add_ai_message call the
\* persisted log of that agent_id equals its in-memory log.
C4_PersistedEqualsMemoryAfterAdd ==
    ret.op \in AddOps => PersistedEqualsMemory(ret.agent)

\* C4 amended: after every add_user_message / add_ai_message call whose disk
\* write succeeded the persisted log of that agent_id equals its in-memory
\* log, also after reads that follow the call.
C4_PersistedEqualsMemoryAfterSavedAdd ==
    (ret.op \in AddOps /\ ret.saved) => PersistedEqualsMemory(ret.agent)

\* a second message was appended and written after an earlier write had failed
C4_Witness ==
    /\ ret.op \in AddOps
    /\ ret.saved
    /\ save_failures > 0
    /\ Len(memories[ret.agent]) >= 2
    /\ PersistedEqualsMemory(ret.agent)

\* C5: when the disk write fails during add_user_message(agent_id, m) the
\* call returns without raising, and the get_conversation_history(agent_id)
\* that follows has m as its last entry.
C5_AppendSurvivesSaveFailure ==
    (ret.op = "add_user_message" /\ ~ret.saved) =>
        /\ ret.exc = "none"
        /\ (got.op = "get_conversation_history" /\ got.agent = ret.agent
                /\ got.max = DefaultMaxMessages) =>
              /\ Len(got.text) >= 3
              /\ LastBlock(got.text) = <<"User", ": ", ret.msg>>

\* a failed write of a second entry, then the history was read
C5_Witness ==
    /\ ret.op = "add_user_message"
    /\ ~ret.saved
    /\ got.op = "get_conversation_history"
    /\ got.agent = ret.agent
    /\ got.max = DefaultMaxMessages
    /\ Len(memories[ret.agent]) >= 2
    /\ ~PersistedEqualsMemory(ret.agent)

\* C6: across every store operation each log only grows (the earlier log is
\* a prefix of the later one), except that clear_memory replaces the log of
\* its agent_id by the empty log.
C6_LogGrowsUntilCleared ==
    /\ [][\A a \in AgentIds :
            \/ IsPrefix(LogOf(memories, a), LogOf(memories', a))
            \/ /\ ret'.op = "clear_memory"
               /\ ret'.agent = a
               /\ LogOf(memories', a) = <<>>]_vars
    /\ []((ret.op = "clear_memory") => LogOf(memories, ret.agent) = <<>>)

\* a non-empty log was cleared: its file, whose rewrite failed, still holds it
C6_Witness ==
    /\ ret.op = "clear_memory"
    /\ ~ret.saved
    /\ ret.agent \in DOMAIN memories
    /\ memories[ret.agent] = <<>>
    /\ MemoryPath(ret.agent) \in DOMAIN disk
    /\ disk[MemoryPath(ret.agent)].valid
    /\ Len(disk[MemoryPath(ret.agent)].log) >= 1

\* C7: clear_memory(agent_id) followed by get_conversation_history(agent_id)
\* returns the empty text, whether or not the store held a log for agent_id.
C7_ClearThenHistoryIsEmpty ==
    (ret.op = "clear_memory" /\ got.op = "get_conversation_history"
        /\ got.agent = ret.agent) => got.text = <<>>

\* the history was read after a clear of a log that had entries (they are
\* still in the file, whose rewrite failed)
C7_Witness ==
    /\ ret.op = "clear_memory"
    /\ got.op = "get_conversation_history"
    /\ got.agent = ret.agent
    /\ MemoryPath(ret.agent) \in DOMAIN disk
    /\ disk[MemoryPath(ret.agent)].valid
    /\ Len(disk[MemoryPath(ret.agent)].log) >= 1

\* C15 as stated: get_conversation_history is a pure read: for every
\* agent_id, also one never used, it leaves the in-memory map (its keys and
\* every log) and the persisted files unchanged.
C15_HistoryIsPureRead ==
    [][got'.op = "get_conversation_history" =>
            (memories' = memories /\ disk' = disk)]_vars

\* C15 amended: get_conversation_history leaves every log and the persisted
\* files unchanged; for an agent_id the store holds no log of, it adds an
\* empty log under that key to the in-memory map.
C15_HistoryOnlyAddsEmptyLog ==
    [][got'.op = "get_conversation_history" =>
            /\ disk' = disk
            /\ ret' = ret
            /\ DOMAIN memories' = DOMAIN memories \cup {got'.agent}
            /\ \A a \in AgentIds : LogOf(memories', a) = LogOf(memories, a)]_vars

\* the history of a never-used agent_id was read while the other agent has
\* a log: the store now holds an empty log for it, and no file
C15_Witness ==
    /\ got.op = "get_conversation_history"
    /\ ret.op \in AddOps
    /\ ret.agent # got.agent
    /\ got.agent \in DOMAIN memories
    /\ memories[got.agent] = <<>>
    /\ MemoryPath(got.agent) \notin DOMAIN disk
    /\ got.text = <<>>

----------------------------------------------------------------------------
(* Properties of the router and the capabilities, checked under RouterSpec *)

\* the least element of a non-empty set of numbers
Least(S) == CHOOSE i \in S : \A j \in S : i <= j

\* C1: MultiAgentSystem.process_query(query) never raises, in live and in
\* fallback-only router mode: every exception of the reasoning or of the
\* delegated capability comes back as a plain-text error message.
C1_ProcessQueryNeverRaises ==
    out.op = "process_query" => (out.exc = "none" /\ out.text # <<>>)

\* C2: get_response(query) of a registered capability returns a non-empty
\* text and propagates no error, when the capability is fallback-only and
\* when it is live and its backend call raises.  (Stated for the
\* capabilities that define get_response; the registry entry "react" defines
\* none.)
C2_GetResponseNeverFails ==
    (/\ out.op = "get_response"
     /\ out.cap # "react"
     /\ (~CallsBackend(out.cap, IsReal(real_impl, out.cap)) \/ out.failed)) =>
        (out.exc = "none" /\ out.text # <<>>)

\* the names of C8 in the order of C8
C8_Names ==
    <<K_direct, K_search, K_calendar, K_research, K_study_plan,
      K_document_analysis, K_general>>

\* the registry key spelled by a name of C8 other than direct
C8_Capability(name) == CHOOSE cap \in Registry : KeyText(cap) = name

\* C8: in live mode the router takes the first of direct, search, calendar,
\* research, study_plan, document_analysis, general (in that order) that
\* occurs in the model's answer; when none occurs the general capability
\* handles the query.
C8_LiveFirstMatchElseGeneral ==
    (out.op = "process_query" /\ out.stage \in {"direct", "delegated"}) =>
        LET answer == Lower(Strip(out.answer))
            hits == { i \in 1..Len(C8_Names) : Contains(answer, C8_Names[i]) }
        IN  IF hits # {}
            THEN /\ out.choice = C8_Names[Least(hits)]
                 /\ IF out.choice = K_direct
                    THEN out.invoked = <<>>
                    ELSE out.invoked = <<C8_Capability(out.choice)>>
            ELSE out.invoked = <<"general">>

\* C9: with no live connection a query without a restaurant/food/location
\* term (nor the substring "eat" of the code's first rule) and without a
\* calendar/schedule/meeting term goes to research when it has a science
\* term, else to study_plan on study/learn/course, else to document_analysis
\* on document/pdf/file, else to general.
C9_FallbackKeywordRules ==
    LET ql == Lower(query)
    IN  (/\ out.op = "process_query"
         /\ ~react_real
         /\ ~AnyIn({K_restaurant, K_food, K_location, K_eat}, ql)
         /\ ~AnyIn({K_calendar, K_schedule, K_meeting}, ql)) =>
            out.invoked =
                << IF AnyIn({K_science, K_physics, K_entropy, K_quantum}, ql)
                   THEN "research"
                   ELSE IF AnyIn({K_study, K_learn, K_course}, ql)
                   THEN "study_plan"
                   ELSE IF AnyIn({K_document, K_pdf, K_file}, ql)
                   THEN "document_analysis"
                   ELSE "general" >>

C11_Rationale ==
    IF react_real
    THEN ActionExplanation(out.choice, query) \o <<"\n\n">>
    ELSE MockReasoning(query, out.invoked[1]) \o MockRationale(out.invoked[1])

\* C11: for every delegated query (a choice other than direct) the router
\* calls the chosen capability with the original query text, unchanged, and
\* the text it returns is the rationale followed by the capability's
\* response text.
C11_DelegationPassesQueryAndComposes ==
    (out.op = "process_query" /\ out.invoked # <<>>) =>
        /\ out.asked = <<query>>
        /\ out.exc = "none"
        /\ out.text = <<"# Response\n\n">> \o C11_Rationale \o out.response

----------------------------------------------------------------------------
(* Properties of calendar_agent.py, checked under CalendarSpec *)

\* the log of the calendar agent
CalendarLog == LogOf(memories, CalendarAgentId)

\* the request has got past the point where its response is produced
ResponseProduced(t) == reqs[t].pc \in {"responded", "ai_added", "returned"}

\* the user entry of request t is in the log, at the place it was appended
UserEntryLogged(t) ==
    /\ reqs[t].user_at \in 1..Len(CalendarLog)
    /\ CalendarLog[reqs[t].user_at] = Message("user", reqs[t].query)

\* the assistant entry of request t is in the log, after its user entry
AssistantEntryLogged(t) ==
    /\ reqs[t].ai_at \in (reqs[t].user_at + 1)..Len(CalendarLog)
    /\ CalendarLog[reqs[t].ai_at] = Message("assistant", reqs[t].response)

\* the log holds the entries of the requests and nothing else, each once
OneEntryEach ==
    LET users == { t \in Requests : reqs[t].user_at > 0 }
        ais == { t \in Requests : reqs[t].ai_at > 0 }
    IN  /\ Len(CalendarLog) = Cardinality(users) + Cardinality(ais)
        /\ { reqs[t].user_at : t \in users } \cup { reqs[t].ai_at : t \in ais }
              = 1..Len(CalendarLog)
        /\ \A t \in users, u \in ais : reqs[t].user_at # reqs[u].ai_at

C13_ModeFixedAtConstruction ==
    [][(using_real_implementation' # using_real_implementation) =>
            (ctor.pc = "create_agent" /\ ctor'.pc = "done")]_vars

\* the backend call of a live calendar agent raised and the agent is still live
C13_Witness ==
    \E t \in Requests :
        /\ reqs[t].pc = "returned"
        /\ reqs[t].failed
        /\ using_real_implementation

\* no trial call is made once one has returned
StopsAtFirstSuccess == [][ctor.model # "none" => ctor'.trials = ctor.trials]_vars

\* C14 as stated: a capability makes at most 3 failed trial calls during its
\* construction, stops probing at the first trial call that succeeds, and
\* the construction terminates.
C14_AtMostThreeFailedTrials ==
    /\ [](ctor.failed <= TrialAttempts)
    /\ StopsAtFirstSuccess
    /\ <>(ctor.pc = "done")

\* C14 amended: at most 3 failed trial calls per provider, Azure first and
\* then OpenAI, so at most 6 in all (calendar_agent.py; one per provider in
\* simple_search_agent.py, one in agent_controller.py); probing stops at the
\* first trial call that succeeds; the construction terminates.
C14_AtMostThreeFailedTrialsPerProvider ==
    /\ [](LET n == TrialAttemptsOf(ctor.module)
          IN  /\ n <= TrialAttempts
              /\ ctor.attempt < n
              /\ ctor.failed <= 2 * n
              /\ ctor.pc = "azure" => ctor.failed = ctor.attempt
              /\ ctor.pc = "openai" => ctor.failed \in {ctor.attempt, n + ctor.attempt}
              /\ ctor.trials <= ctor.failed + 1
              /\ (ctor.pc = "done" /\ using_real_implementation) => ctor.model # "none")
    /\ StopsAtFirstSuccess
    /\ <>(ctor.pc = "done")

\* the agent became fallback-only after three failed trial calls to each provider
C14_Witness ==
    /\ ctor.module = "calendar_agent"
    /\ ctor.pc = "done"
    /\ ctor.failed = 2 * TrialAttempts
    /\ ~using_real_implementation

\* C18: the store takes no lock: while one calendar request is between its
\* two appends, another request can append its user entry, so the log can
\* hold the user entries of both requests before the assistant entry of
\* either (the state of C18_Witness).
C18_RequestsInterleave ==
    \A t, u \in Requests :
        (t # u /\ ctor.module = "calendar_agent" /\ reqs[t].pc \in {"user_added", "responded"} /\ reqs[u].pc = "idle") =>
            ENABLED (\E q \in CalendarQueries : cal_add_user_message(u, q, "ok"))

\* the log holds the user entries of both requests and then an assistant entry
C18_Witness ==
    /\ \A t \in Requests : reqs[t].user_at \in {1, 2}
    /\ Len(CalendarLog) >= 3
    /\ CalendarLog[1].role = "user"
    /\ CalendarLog[2].role = "user"
    /\ CalendarLog[3].role = "assistant"

----------------------------------------------------------------------------
(* Properties of the store across restarts, checked under RestartSpec *)

\* the store has just been constructed: no operation has run on it
JustStarted == boot.status = "up" /\ ret = NoResult /\ got = NoResult

\* C16: when a persisted log cannot be loaded at store construction,
\* whatever the kind of load failure, the construction does not fail: the
\* log of that agent_id is reset to empty and every other persisted log is
\* loaded.
C16_LoadFailureIsNotFatal ==
    /\ boot.status # "failed"
    /\ JustStarted =>
          \A filename \in DOMAIN disk :
              LET agent_id == AgentIdOfFile(filename)
              IN  /\ agent_id \in DOMAIN memories
                  /\ memories[agent_id] =
                        IF disk[filename].valid THEN disk[filename].log ELSE <<>>

\* the file of agent_id holds the log the store had before the restart
SavedBefore(agent_id) ==
    /\ agent_id \in DOMAIN boot.before
    /\ MemoryPath(agent_id) \in DOMAIN disk
    /\ disk[MemoryPath(agent_id)] = PickledFile(boot.before[agent_id])

\* get_conversation_history(agent_id) on the map mems
HistoryIn(mems, agent_id) ==
    FormatHistory(RecentMessages(LogOf(mems, agent_id), DefaultMaxMessages))

\* C17: restart round-trip: for every agent_id whose saves succeeded, a new
\* store constructed over the same directory returns the same history as
\* the old store did (the empty history after clear_memory included); the
\* file of an agent_id is loaded back under the same agent_id.
C17_RestartRoundTrip ==
    (JustStarted /\ boot.starts >= 2) =>
        \A a \in RestartAgentIds :
            SavedBefore(a) =>
                /\ a \in DOMAIN memories
                /\ HistoryIn(memories, a) = HistoryIn(boot.before, a)

----------------------------------------------------------------------------
(* Properties of two runs of the fallback router, checked under PairSpec *)

\* C19: with no live backend the router's choice is a function of the
\* query alone: two runs on the same query, started from any two states of
\* the store and of the capabilities, choose the same capability.
C19_SameQuerySameChoice ==
    (first.out.op = "process_query" /\ out.op = "process_query") =>
        /\ first.out.choice = out.choice
        /\ first.out.invoked = out.invoked

\* two runs on a calendar query, the later one on a longer conversation log,
\* chose the same capability and got different texts from it
C19_Witness ==
    /\ first.out.op = "process_query"
    /\ out.op = "process_query"
    /\ first.memories # memories
    /\ first.out.text # out.text
    /\ first.out.exc = "none"
    /\ out.exc = "none"
    /\ out.invoked = <<"calendar">>

----------------------------------------------------------------------------
(* Properties of the POST handlers of routes.py, checked under RoutesSpec *)

\* the fields the claim names for an endpoint
DocumentedFields(endpoint) ==
    CASE endpoint \in {"/search", "/calendar", "/education"} -> {"query"}
      [] endpoint = "/calendar/schedule" -> {"details"}
      [] endpoint = "/calendar/update" -> {"original_event", "new_details"}
      [] endpoint = "/calendar/delete" -> {"event"}
      [] endpoint = "/calendar/list" -> {"time_period"}
      [] endpoint \in {"/university-courses/search", "/university-courses/info"}
           -> {"university"}
      [] endpoint = "/university-courses/recommend" -> {"interests"}
      [] OTHER -> {}

Answered == http.status # 0

\* a documented field of the endpoint is not in the request body
FieldMissing == \E f \in DocumentedFields(http.endpoint) : ~InData(http, f)

Refused == http.status = 400 /\ http.key = "error" /\ http.invoked = <<>>

\* the action form of /calendar is complete
ActionFormComplete ==
    /\ http.json = "object"
    /\ DataGet(http, "action", "") \in {"add", "edit", "delete", "view"}
    /\ DataGet(http, "details", "") # ""
    /\ DataGet(http, "action", "") = "edit" => DataGet(http, "original_event", "") # ""

----------------------------------------------------------------------------
(* Properties of the calendar operations in fallback mode, checked under   *)
(* FallbackSpec                                                            *)

\* the template a fallback text is made from: its heading
TemplateOf(text) == IF text = <<>> THEN "" ELSE text[1]

\* C21: with no backend configured, the fallback for the query 'Schedule a
\* meeting titled <T> on <D> at <H>' returns the event-created template whose
\* Title is <T>, Date is <D> and Time is <H>, in calendar_agent.py and in
\* agent_controller.py.
C21_ScheduleQueryFillsTemplate ==
    \A title \in Titles, date \in Dates, time \in Times :
        call.query = ScheduleQuery(title, date, time) =>
            /\ call.op = "process_calendar_query" =>
                   call.response = CalendarEventCreated(title, date, time)
            /\ call.op = "controller_get_response" =>
                   call.response = EventCreated(title, date, time)

\* C22: in fallback mode the second of two consecutive calls gets a response
\* other than the one its query gets as a first call, the log holding more
\* than 2 entries once its user message is appended.
C22_SecondCallContinues ==
    (call.made >= 2 /\ call.op # "controller_get_response"
        /\ Len(LogOf(memories, CalendarAgentId)) > 2)
    => call.response # CalendarAgentMockResponse(call.query)

\* C24: in fallback mode schedule_event returns the event-created template,
\* update_event the event-updated template, delete_event the event-deleted
\* template naming the event, list_events the events-list template, for every
\* argument text.
C24_EachOperationItsTemplate ==
    /\ call.op = "schedule_event" =>
           TemplateOf(call.response) = TemplateOf(CalendarEventCreated(<<>>, <<>>, <<>>))
    /\ call.op = "update_event" =>
           TemplateOf(call.response) = TemplateOf(CalendarEventUpdated(<<>>, <<>>))
    /\ call.op = "delete_event" =>
           call.response = CalendarEventDeleted(call.args[1])
    /\ call.op = "list_events" =>
           TemplateOf(call.response) = TemplateOf(CalendarEventsFor(<<>>))

----------------------------------------------------------------------------
(* More properties of the router, checked under RouterSpec and DispatchSpec *)

\* the words of a query, lowercased
WordsOf(q) == { Split(Lower(q), <<" ">>)[i] : i \in 1..Len(Split(Lower(q), <<" ">>)) }

\* C23: with no live connection every query that has the word calendar,
\* schedule or meeting and no restaurant, food or location word is routed to
\* the calendar capability.
C23_CalendarWordsGoToCalendar ==
    (/\ out.op = "process_query"
     /\ ~react_real
     /\ WordsOf(query) \cap {K_calendar, K_schedule, K_meeting} # {}
     /\ WordsOf(query) \cap {K_restaurant, K_food, K_location} = {}) =>
        /\ out.choice = K_calendar
        /\ out.invoked = <<"calendar">>

\* C25: in live mode, when the model's answer is exactly one name of the
\* enumeration, the router chooses that name and, unless it is direct,
\* delegates to the capability registered under it.
C25_ExactNameIsChosen ==
    (/\ out.op = "process_query"
     /\ out.stage \in {"direct", "delegated"}
     /\ \E i \in 1..Len(ScanOrder) : out.answer = ScanOrder[i]) =>
        /\ out.choice = out.answer
        /\ out.choice # K_direct => out.invoked = <<RegisteredUnder(out.answer)>>
        /\ out.choice = K_direct => out.invoked = <<>>

\* C27: get_agent_response(agent_type, query) invokes exactly one capability
\* once and returns its text: the one registered under agent_type for every
\* key of the registry, the general capability for any other agent_type.
C27_DispatchInvokesOne ==
    out.op = "get_agent_response" =>
        /\ out.exc = "none"
        /\ out.invoked =
             << IF \E cap \in Registry : KeyText(cap) = out.choice
                THEN CHOOSE cap \in Registry : KeyText(cap) = out.choice
                ELSE "general" >>
        /\ out.text = out.response

----------------------------------------------------------------------------
(* Properties of concurrent appends, checked under RaceSpec *)

\* both requests have finished
BothDone == \A t \in Threads : threads[t].pc = "done"

\* the entry thread t appended
EntryOf(t) == Message(threads[t].role, threads[t].message)

\* how many times entry e occurs in log
Occurrences(log, e) == Cardinality({ i \in 1..Len(log) : log[i] = e })

\* C26: when two requests append concurrently to the same agent_id, also when
\* it has no log yet, no entry is lost: once both have finished, the in-memory
\* log holds every entry appended by either of them.
C26_NoAppendedEntryLost ==
    BothDone =>
        \A t \in Threads :
            LET same == { u \in Threads : /\ threads[u].agent_id = threads[t].agent_id
                                          /\ EntryOf(u) = EntryOf(t) }
            IN  Occurrences(LogOf(memories, threads[t].agent_id), EntryOf(t))
                    >= Cardinality(same)

----------------------------------------------------------------------------
(* Properties of the live prompt of the calendar capability, checked under *)
(* CalendarSpec                                                            *)

\* the prompt request t sent carries the previous conversation
HasHistory(t) == reqs[t].prompt # <<>> /\ Head(reqs[t].prompt) = "Previous conversation:\n"

\* the prompt request t sent is its keyword-enhanced query and nothing else
OnlyEnhancedQuery(t) == reqs[t].prompt = EnhanceCalendarQuery(reqs[t].query)

\* this step is request t building its prompt in live mode (lines 289-296)
BuildsPrompt(t) ==
    /\ using_real_implementation
    /\ reqs[t].pc = "user_added"
    /\ reqs'[t].pc # "user_added"

\* C28: in live mode the prompt carries the previous conversation
\* exactly when the calendar_agent log holds more than 2 entries after the
\* user message of the request has been appended, otherwise it is the
\* keyword-enhanced query; so the first request on an empty log never carries
\* history, and the next request after one completed exchange always does.
C28_HistoryWhenLogExceedsTwo ==
    [][\A t \in Requests : BuildsPrompt(t) =>
          /\ HasHistory(t)' <=> reqs[t].user_at > 2
          /\ ~HasHistory(t)' => OnlyEnhancedQuery(t)'
          /\ reqs[t].user_at = 1 => ~HasHistory(t)'
          /\ (\E u \in Requests : /\ reqs[u].pc = "returned" /\ ~reqs[u].failed
                                   /\ reqs[u].ai_at < reqs[t].user_at)
                => HasHistory(t)']_vars

\* text is an error message of the calendar capability (line 312)
IsCalendarErrorText(text) ==
    /\ text # <<>>
    /\ Head(text) = Head(CalendarAgentErrorText("Exception"))

\* C29: when the live backend call raises inside the calendar capability, the
\* error text is returned to the caller and is never appended to the
\* conversation log: no assistant entry of the calendar_agent log is an error
\* message.
C29_ErrorTextNeverLogged ==
    /\ \A i \in 1..Len(CalendarLog) :
          CalendarLog[i].role = "assistant" => ~IsCalendarErrorText(CalendarLog[i].content)
    /\ \A t \in Requests :
          reqs[t].failed =>
              /\ reqs[t].pc = "returned"
              /\ IsCalendarErrorText(reqs[t].result)
              /\ reqs[t].ai_at = 0

\* the backend raised for one request, which returned the error text, and
\* answered the other one, whose answer is the only assistant entry
C29_Witness ==
    \E t, u \in Requests :
        /\ reqs[t].failed /\ reqs[t].pc = "returned"
        /\ reqs[t].result = CalendarAgentErrorText("Exception")
        /\ reqs[u].pc = "returned" /\ ~reqs[u].failed
        /\ Len(CalendarLog) = 3
        /\ Cardinality({ i \in 1..Len(CalendarLog) : CalendarLog[i].role = "assistant" }) = 1

----------------------------------------------------------------------------
(* Frame of the writing operations of the store, checked under SharedFileSpec *)

\* no file at the path
NoFile == [valid |-> FALSE, log |-> <<>>, raises |-> "FileNotFoundError"]

\* the persisted file of agent_id: what is at the path _get_memory_path gives
FileOf(dsk, agent_id) ==
    IF FileNamed(MemoryPath(agent_id)) \in DOMAIN dsk
    THEN dsk[FileNamed(MemoryPath(agent_id))]
    ELSE NoFile

\* this step is add_user_message, add_ai_message or clear_memory on agent_id
WritesTo(agent_id) ==
    /\ got' = NoResult
    /\ ret'.op \in {"add_user_message", "add_ai_message", "clear_memory"}
    /\ ret'.agent = agent_id

\* C30: add_user_message, add_ai_message and clear_memory on agent_id a leave
\* the in-memory log and the persisted file of every other agent_id b
\* unchanged.
C30_OtherAgentsUntouched ==
    [][\A a, b \in SpelledAgentIds : (WritesTo(a) /\ b # a) =>
          /\ b \in DOMAIN memories' <=> b \in DOMAIN memories
          /\ LogOf(memories', b) = LogOf(memories, b)
          /\ FileOf(disk', b) = FileOf(disk, b)]_vars

====
